---- MODULE Spec2Model ----
(***************************************************************************)
(* A model of grf2txt: the BinaryReader cursor (binreader.py), the NewGRF  *)
(* string decoder with its TextRefStack (grfstrings.py) and the NewGRF     *)
(* container parser with its pseudo-sprite dispatcher (newgrf.py).         *)
(*                                                                         *)
(* Bytes are the integers 0..255, byte strings are sequences of bytes, a   *)
(* Python exception is an "err" field holding the exception's message      *)
(* ("" when none was raised).                                              *)
(***************************************************************************)
EXTENDS Integers, Sequences, FiniteSets, TLC

VARIABLES
    reader,        \* BinaryReader: file, cursor, attached hash
    ret,           \* the last BinaryReader call and what it returned
    b,             \* decodestr: the raw byte string
    pos,           \* decodestr: index of the next byte of b
    is_unicode,    \* decodestr: b opens with the U+00DE marker
    result,        \* decodestr: the text decoded so far
    stack,         \* decodestr: the TextRefStack (stack_index, commands)
    dpc,           \* decodestr: "loop", "returned" or "raised"
    derr,          \* decodestr: the exception raised
    stack_types,   \* decodestr: the dict returned with the text
    log,           \* history: each control code run and the slots held then
    grf,           \* read: the NewGRF instance read is called on
    frame,         \* read: the locals size, skip_sprites, sprite_index, state
    pc,            \* read: "header", "records", "trailer", "returned", "raised"
    hist,          \* history of read: the records' events, the exception,
                   \* where the trailer began, the accepted file cut short
    proc,          \* process_string: the map passed, what came back
    loop           \* one loop of read run on its own, a turn at a time

readerVars == <<reader, ret>>
decodeVars == <<b, pos, is_unicode, result, stack, dpc, derr, stack_types, log>>
readVars == <<grf, frame, pc, hist>>
processVars == <<proc>>
loopVars == <<loop>>
vars == <<reader, ret, b, pos, is_unicode, result, stack, dpc, derr,
          stack_types, log, grf, frame, pc, hist, proc, loop>>

(***************************************************************************)
(* Bit operations of Python on non-negative integers.                      *)
(***************************************************************************)
RECURSIVE BitAnd(_, _)
BitAnd(x, y) ==
    IF x = 0 \/ y = 0 THEN 0
    ELSE (x % 2) * (y % 2) + 2 * BitAnd(x \div 2, y \div 2)

RECURSIVE BitOr(_, _)
BitOr(x, y) ==
    IF x = 0 THEN y
    ELSE IF y = 0 THEN x
    ELSE (IF x % 2 = 1 \/ y % 2 = 1 THEN 1 ELSE 0) + 2 * BitOr(x \div 2, y \div 2)

Shl(x, n) == IF x = 0 THEN 0 ELSE x * 2^n

Shr(x, n) == x \div 2^n

Min(x, y) == IF x < y THEN x ELSE y

(***************************************************************************)
(* BinaryReader.  A reader is [file, pos, hash, hashed]: the bytes of the  *)
(* underlying file, the number of bytes read so far, whether a hash is     *)
(* attached, and the bytes the hash was updated with.  Every operation     *)
(* returns the reader after the call with the value read and the message   *)
(* of the exception raised, if any.                                        *)
(***************************************************************************)
EOF == "Unexpected end-of-file."

BinaryReader(file, hash) ==
    [file |-> file, pos |-> 0, hash |-> hash, hashed |-> <<>>]

\* as detach_hash, the hash left attached
detach_hash_kept(r) == r

detach_hash(r) == [r EXCEPT !.hash = FALSE]

\* file.read(amount): at most amount bytes, fewer at the end of the file
read(r, amount) ==
    LET upto == Min(Len(r.file), r.pos + amount)
        bytes == SubSeq(r.file, r.pos + 1, upto)
    IN  [reader |-> [r EXCEPT !.pos = upto,
                              !.hashed = IF r.hash THEN @ \o bytes ELSE @],
         val |-> bytes]

\* as skip, the bytes passed over kept from the hash
skip_unhashed(r, amount) == [r EXCEPT !.pos = Min(Len(r.file), r.pos + amount)]

skip(r, amount) == read(r, amount).reader

uint8(r) ==
    LET got == read(r, 1)
    IN  IF Len(got.val) # 1
        THEN [reader |-> got.reader, val |-> 0, err |-> EOF]
        ELSE [reader |-> got.reader, val |-> got.val[1], err |-> ""]

uint16(r, be) ==
    LET got == read(r, 2)
    IN  IF Len(got.val) # 2
        THEN [reader |-> got.reader, val |-> 0, err |-> EOF]
        ELSE [reader |-> got.reader,
              val |-> IF be THEN got.val[1] * 256 + got.val[2]
                            ELSE got.val[2] * 256 + got.val[1],
              err |-> ""]

uint24(r, be) ==
    LET got == read(r, 3)
        x == got.val
    IN  IF Len(x) # 3
        THEN [reader |-> got.reader, val |-> 0, err |-> EOF]
        ELSE [reader |-> got.reader,
              val |-> IF be THEN BitOr(BitOr(Shl(x[1], 16), Shl(x[2], 8)), x[3])
                            ELSE BitOr(BitOr(Shl(x[3], 16), Shl(x[2], 8)), x[1]),
              err |-> ""]

uint32(r, be) ==
    LET got == read(r, 4)
        x == got.val
    IN  IF Len(x) # 4
        THEN [reader |-> got.reader, val |-> 0, err |-> EOF]
        ELSE [reader |-> got.reader,
              val |-> IF be
                      THEN ((x[1] * 256 + x[2]) * 256 + x[3]) * 256 + x[4]
                      ELSE ((x[4] * 256 + x[3]) * 256 + x[2]) * 256 + x[1],
              err |-> ""]

\* Zero-terminated string: stops at a NUL byte or at the end of the file.
RECURSIVE str_loop(_, _)
str_loop(r, acc) ==
    LET got == read(r, 1)
    IN  IF got.val = <<0>> \/ got.val = <<>>
        THEN [reader |-> got.reader, val |-> acc]
        ELSE str_loop(got.reader, acc \o got.val)

str(r) == str_loop(r, <<>>)

\* as uint_ext, with the 16-bit value read big-endian
uint_ext_be(r) ==
    LET first == uint8(r)
    IN  IF first.err # "" THEN first
        ELSE IF first.val = \hFF THEN uint16(first.reader, TRUE)
        ELSE first

uint_ext(r) ==
    LET first == uint8(r)
    IN  IF first.err # "" THEN first
        ELSE IF first.val = \hFF THEN uint16(first.reader, FALSE)
        ELSE first

\* The rest of gamma after its first byte: the value's remaining bytes.
gamma_tail(first, size) ==
    LET x == first.val
        more == CASE size = 2 -> uint8(first.reader)
                  [] size = 3 -> uint16(first.reader, TRUE)
                  [] size = 4 -> uint24(first.reader, TRUE)
                  [] size = 5 -> uint32(first.reader, TRUE)
        high == CASE size = 2 -> Shl(BitAnd(x, \h3F), 8)
                  [] size = 3 -> Shl(BitAnd(x, \h1F), 16)
                  [] size = 4 -> Shl(BitAnd(x, \h0F), 24)
                  [] size = 5 -> Shl(BitAnd(x, \h07), 32)
    IN  IF more.err # ""
        THEN [reader |-> more.reader, val |-> 0, n |-> 0, err |-> more.err]
        ELSE [reader |-> more.reader, val |-> BitOr(high, more.val),
              n |-> size, err |-> ""]

\* as gamma, with the 1110xxxx prefix read as the 3-byte class
gamma_short(r) ==
    LET first == uint8(r)
        x == first.val
    IN  IF first.err # ""
        THEN [reader |-> first.reader, val |-> 0, n |-> 0, err |-> first.err]
        ELSE IF BitAnd(x, \h80) = 0
        THEN [reader |-> first.reader, val |-> BitAnd(x, \h7F), n |-> 1, err |-> ""]
        ELSE IF BitAnd(x, \hC0) = \h80 THEN gamma_tail(first, 2)
        ELSE IF BitAnd(x, \hE0) = \hC0 THEN gamma_tail(first, 3)
        ELSE IF BitAnd(x, \hF0) = \hE0 THEN gamma_tail(first, 3)
        ELSE IF BitAnd(x, \hF8) = \hF0 THEN gamma_tail(first, 5)
        ELSE [reader |-> first.reader, val |-> 0, n |-> 0,
              err |-> "Invalid gamma encoding."]

gamma(r) ==
    LET first == uint8(r)
        x == first.val
    IN  IF first.err # ""
        THEN [reader |-> first.reader, val |-> 0, n |-> 0, err |-> first.err]
        ELSE IF BitAnd(x, \h80) = 0
        THEN [reader |-> first.reader, val |-> BitAnd(x, \h7F), n |-> 1, err |-> ""]
        ELSE IF BitAnd(x, \hC0) = \h80 THEN gamma_tail(first, 2)
        ELSE IF BitAnd(x, \hE0) = \hC0 THEN gamma_tail(first, 3)
        ELSE IF BitAnd(x, \hF0) = \hE0 THEN gamma_tail(first, 4)
        ELSE IF BitAnd(x, \hF8) = \hF0 THEN gamma_tail(first, 5)
        ELSE [reader |-> first.reader, val |-> 0, n |-> 0,
              err |-> "Invalid gamma encoding."]

(***************************************************************************)
(* BinaryReader on its own: gamma and uint_ext called one after the other  *)
(* on a byte string, each call from where the last one stopped, until one  *)
(* raises.  A byte string is a first byte and up to MaxArg further bytes.  *)
(***************************************************************************)
MaxArg == 4

FirstBytes ==
    {\h00, \h05, \h7F, \h80, \hBF, \hC0, \hDF, \hE0, \hEF, \hF0, \hF7, \hF8,
     \hFE, \hFF}

ArgBytes == {\h00, \h01, \h80, \hFF}

\* TLC's integers end at 2^31 - 1: of the 5-byte gamma values the model
\* holds those below 2^31.
Representable(bytes) ==
    (bytes[1] >= \hF0 /\ bytes[1] <= \hF7 /\ Len(bytes) >= 5) =>
        (bytes[1] = \hF0 /\ bytes[2] < \h80)

ReaderInputs ==
    {<<>>} \cup
    { bytes \in { <<first>> \o arg :
                    first \in FirstBytes,
                    arg \in UNION {[1..k -> ArgBytes] : k \in 0..MaxArg} } :
        Representable(bytes) }

NoCall == [op |-> "none", at |-> 0, val |-> 0, n |-> 0, err |-> ""]

\* decodestr is not running in this specification.
\* No NewGRF instance, no call of read.
IdleRead ==
    /\ grf = <<>>
    /\ frame = <<>>
    /\ pc = "idle"
    /\ hist = <<>>

\* process_string is not called in this specification.
IdleProcess == proc = <<>>

\* No loop is run on its own in this specification.
NoLoop ==
    [name |-> "none", input |-> <<>>, size0 |-> 0,
     r |-> BinaryReader(<<>>, FALSE), size |-> 0, id |-> 0, self |-> <<>>,
     paths |-> <<>>, val |-> FALSE, err |-> "", pc |-> "idle"]

IdleLoop == loop = NoLoop

IdleDecode ==
    /\ b = <<>>
    /\ pos = 0
    /\ is_unicode = FALSE
    /\ result = ""
    /\ stack = [stack_index |-> <<>>, commands |-> <<>>]
    /\ dpc = "idle"
    /\ derr = ""
    /\ stack_types = [key \in {} |-> 0]
    /\ log = <<>>

InitReader ==
    /\ reader \in {BinaryReader(file, FALSE) : file \in ReaderInputs}
    /\ ret = NoCall
    /\ IdleDecode
    /\ IdleRead
    /\ IdleProcess
    /\ IdleLoop

CallGamma ==
    /\ ret.err = ""
    /\ LET got == gamma(reader)
       IN  /\ reader' = got.reader
           /\ ret' = [op |-> "gamma", at |-> reader.pos, val |-> got.val,
                      n |-> got.n, err |-> got.err]
    /\ UNCHANGED <<decodeVars, readVars, processVars, loopVars>>

CallUintExt ==
    /\ ret.err = ""
    /\ LET got == uint_ext(reader)
       IN  /\ reader' = got.reader
           /\ ret' = [op |-> "uint_ext", at |-> reader.pos, val |-> got.val,
                      n |-> 0, err |-> got.err]
    /\ UNCHANGED <<decodeVars, readVars, processVars, loopVars>>

NextReader == CallGamma \/ CallUintExt

SpecReader == InitReader /\ [][NextReader]_vars

(***************************************************************************)
(* Claims about BinaryReader, under SpecReader.                            *)
(***************************************************************************)
\* The bytes the last call found in front of it.
Ahead == SubSeq(reader.file, ret.at + 1, Len(reader.file))

RECURSIVE Div256(_, _)
Div256(v, k) == IF k = 0 THEN v ELSE Div256(v \div 256, k - 1)

\* v in k bytes, most significant first
BigEndian(v, k) == [i \in 1..k |-> Div256(v, k - i) % 256]

\* The first byte's prefix bits for a gamma of n bytes: 0, 10, 110, 1110,
\* 11110.
GammaPrefix(n) ==
    CASE n = 1 -> \h00 [] n = 2 -> \h80 [] n = 3 -> \hC0 [] n = 4 -> \hE0
      [] n = 5 -> \hF0

\* The first byte first carries the prefix of class n
HasGammaPrefix(first, n) ==
    /\ first >= GammaPrefix(n)
    /\ first < (IF n = 5 THEN \hF8 ELSE GammaPrefix(n + 1))

\* The n-byte gamma encoding of v: the prefix, then v big-endian in the
\* remaining 7 * n bits.
GammaEncode(v, n) == <<GammaPrefix(n) + Div256(v, n - 1)>> \o BigEndian(v, n - 1)

\* C5: when the bytes ahead are a valid gamma encoding of length class n
\* (the class its first byte's prefix selects), gamma returns (v, n) with
\* v the value so encoded and the cursor n bytes on; a first byte
\* 11111xxx raises the invalid-encoding error.
C5_GammaRoundTrip ==
    ret.op = "gamma" =>
        /\ \A n \in 1..5 :
              Len(Ahead) >= n /\ HasGammaPrefix(Ahead[1], n) =>
                  /\ ret.err = ""
                  /\ ret.n = n
                  /\ reader.pos = ret.at + n
                  /\ GammaEncode(ret.val, n) = SubSeq(Ahead, 1, n)
        /\ Len(Ahead) >= 1 /\ Ahead[1] >= \hF8 =>
              ret.err = "Invalid gamma encoding."

\* gamma decoded a 4-byte encoding, of 0x0F0100FF.
C5_Witness ==
    /\ ret.op = "gamma"
    /\ ret.err = ""
    /\ ret.n = 4
    /\ SubSeq(Ahead, 1, 4) = <<\hEF, \h01, \h00, \hFF>>

\* The extended-byte encoding of v: one byte up to 254, else 0xFF and v as
\* little-endian 16-bit.
ExtEncode(v) == IF v <= 254 THEN <<v>> ELSE <<\hFF, v % 256, v \div 256>>

\* The values whose encoding the model's bytes can spell.
ExtValues ==
    FirstBytes \cup ArgBytes \cup {lo + 256 * hi : lo, hi \in ArgBytes}

IsPrefix(s, bytes) == Len(s) <= Len(bytes) /\ SubSeq(bytes, 1, Len(s)) = s

\* C6: when the bytes ahead are the extended-byte encoding of v, uint_ext
\* returns v and has consumed 1 byte (v in 0..254) or 3 (v in 255..65535).
C6_ExtRoundTrip ==
    ret.op = "uint_ext" =>
        \A v \in ExtValues :
            IsPrefix(ExtEncode(v), Ahead) =>
                /\ ret.err = ""
                /\ ret.val = v
                /\ reader.pos = ret.at + (IF v <= 254 THEN 1 ELSE 3)

\* uint_ext decoded the 3-byte encoding of 0x8001.
C6_Witness ==
    /\ ret.op = "uint_ext"
    /\ ret.err = ""
    /\ ret.val = \h8001
    /\ reader.pos = ret.at + 3

(***************************************************************************)
(* grfstrings.py: control codes, TextRefStack, getutf8, decodestr.         *)
(* Python strings are TLA+ strings; a character outside printable ASCII    *)
(* (and the two a TLA+ string cannot hold, chr(34) and chr(96)) is written *)
(* as its decimal character reference, "&#8364;" for U+20AC.               *)
(* None is NoneInt where an integer is expected.                           *)
(***************************************************************************)
NoneInt == -1

StackSlots == 64

\* CommandName.__post_init__: an empty translation_name takes the base_name
CommandName(base_name, translation_name) ==
    [base_name |-> base_name,
     translation_name |-> IF translation_name = "" THEN base_name
                          ELSE translation_name]

StackParam(offset, size) == [offset |-> offset, size |-> size]

TextCommand(base_name, translation_name, inline_param_size) ==
    [base_name |-> base_name,
     translation_name |-> CommandName(base_name, translation_name).translation_name,
     inline_param_size |-> inline_param_size,
     stack_param |-> <<>>]

\* Every entry of the tables gives base_name only; command_handler is the
\* name of the TextRefStack method.
ControlCode(base_name, inline_param_size, stack_param_size, command_handler) ==
    [base_name |-> base_name,
     translation_name |-> CommandName(base_name, "").translation_name,
     inline_param_size |-> inline_param_size,
     stack_param_size |-> stack_param_size,
     command_handler |-> command_handler]

DefaultControlCode == ControlCode("", 0, <<>>, "standard_command")

CTRL_CODES ==
       (\h01 :> ControlCode("", 1, <<>>, "standard_command"))
    @@ (\h0E :> ControlCode("{TINY_FONT}", 0, <<>>, "standard_command"))
    @@ (\h0F :> ControlCode("{BIG_FONT}", 0, <<>>, "standard_command"))
    @@ (\h1F :> ControlCode("", 2, <<>>, "standard_command"))
    @@ (\h7B :> ControlCode("{COMMA}", 0, <<4>>, "standard_command"))
    @@ (\h7C :> ControlCode("{COMMA}", 0, <<2>>, "standard_command"))
    @@ (\h7D :> ControlCode("{COMMA}", 0, <<1>>, "standard_command"))
    @@ (\h7E :> ControlCode("{COMMA}", 0, <<2>>, "standard_command"))
    @@ (\h7F :> ControlCode("{CURRENCY_LONG}", 0, <<4>>, "standard_command"))
    @@ (\h80 :> ControlCode("{STRING}", 0, <<2>>, "standard_command"))
    @@ (\h81 :> ControlCode("{STRING}", 2, <<>>, "standard_command"))
    @@ (\h82 :> ControlCode("{DATE_LONG}", 0, <<2>>, "standard_command"))
    @@ (\h83 :> ControlCode("{DATE_SHORT}", 0, <<2>>, "standard_command"))
    @@ (\h84 :> ControlCode("{SPEED}", 0, <<2>>, "standard_command"))
    @@ (\h85 :> ControlCode("", 0, <<2>>, "standard_command"))
    @@ (\h86 :> ControlCode("", 0, <<>>, "rotate_words"))
    @@ (\h87 :> ControlCode("{VOLUME_LONG}", 0, <<2>>, "standard_command"))
    @@ (\h88 :> ControlCode("{BLUE}", 0, <<>>, "standard_command"))
    @@ (\h89 :> ControlCode("{SILVER}", 0, <<>>, "standard_command"))
    @@ (\h8A :> ControlCode("{GOLD}", 0, <<>>, "standard_command"))
    @@ (\h8B :> ControlCode("{RED}", 0, <<>>, "standard_command"))
    @@ (\h8C :> ControlCode("{PURPLE}", 0, <<>>, "standard_command"))
    @@ (\h8D :> ControlCode("{LTBROWN}", 0, <<>>, "standard_command"))
    @@ (\h8E :> ControlCode("{ORANGE}", 0, <<>>, "standard_command"))
    @@ (\h8F :> ControlCode("{GREEN}", 0, <<>>, "standard_command"))
    @@ (\h90 :> ControlCode("{YELLOW}", 0, <<>>, "standard_command"))
    @@ (\h91 :> ControlCode("{DKGREEN}", 0, <<>>, "standard_command"))
    @@ (\h92 :> ControlCode("{CREAM}", 0, <<>>, "standard_command"))
    @@ (\h93 :> ControlCode("{BROWN}", 0, <<>>, "standard_command"))
    @@ (\h94 :> ControlCode("{WHITE}", 0, <<>>, "standard_command"))
    @@ (\h95 :> ControlCode("{LTBLUE}", 0, <<>>, "standard_command"))
    @@ (\h96 :> ControlCode("{GRAY}", 0, <<>>, "standard_command"))
    @@ (\h97 :> ControlCode("{DKBLUE}", 0, <<>>, "standard_command"))
    @@ (\h98 :> ControlCode("{BLACK}", 0, <<>>, "standard_command"))
    @@ (\h99 :> ControlCode("", 1, <<>>, "standard_command"))
    @@ (\h9E :> ControlCode("&#8364;", 0, <<>>, "standard_command"))
    @@ (\h9F :> ControlCode("&#376;", 0, <<>>, "standard_command"))
    @@ (\hA0 :> ControlCode("{UP_ARROW}", 0, <<>>, "standard_command"))
    @@ (\hAA :> ControlCode("{DOWN_ARROW}", 0, <<>>, "standard_command"))
    @@ (\hAC :> ControlCode("{CHECKMARK}", 0, <<>>, "standard_command"))
    @@ (\hAD :> ControlCode("{CROSS}", 0, <<>>, "standard_command"))
    @@ (\hAF :> ControlCode("{RIGHT_ARROW}", 0, <<>>, "standard_command"))
    @@ (\hB4 :> ControlCode("{TRAIN}", 0, <<>>, "standard_command"))
    @@ (\hB5 :> ControlCode("{LORRY}", 0, <<>>, "standard_command"))
    @@ (\hB6 :> ControlCode("{BUS}", 0, <<>>, "standard_command"))
    @@ (\hB7 :> ControlCode("{PLANE}", 0, <<>>, "standard_command"))
    @@ (\hB8 :> ControlCode("{SHIP}", 0, <<>>, "standard_command"))
    @@ (\hB9 :> ControlCode("&#8331;&#8321;", 0, <<>>, "standard_command"))
    @@ (\hBC :> ControlCode("{SMALL_UP_ARROW}", 0, <<>>, "standard_command"))
    @@ (\hBD :> ControlCode("{SMALL_DOWN_ARROW}", 0, <<>>, "standard_command"))

EXT_CTRL_CODES ==
       (\h00 :> ControlCode("{CURRENCY_LONG}", 0, <<8>>, "standard_command"))
    @@ (\h01 :> ControlCode("{CURRENCY_LONG}", 0, <<8>>, "standard_command"))
    @@ (\h02 :> ControlCode("", 0, <<>>, "standard_command"))
    @@ (\h03 :> ControlCode("", 2, <<>>, "push_word"))
    @@ (\h04 :> ControlCode("", 1, <<>>, "standard_command"))
    @@ (\h06 :> ControlCode("{HEX}", 0, <<1>>, "standard_command"))
    @@ (\h07 :> ControlCode("{HEX}", 0, <<2>>, "standard_command"))
    @@ (\h08 :> ControlCode("{HEX}", 0, <<4>>, "standard_command"))
    @@ (\h0B :> ControlCode("{HEX}", 0, <<8>>, "standard_command"))
    @@ (\h0C :> ControlCode("{STATION}", 0, <<2>>, "standard_command"))
    @@ (\h0D :> ControlCode("{WEIGHT_LONG}", 0, <<2>>, "standard_command"))
    @@ (\h0E :> ControlCode("", 1, <<>>, "standard_command"))
    @@ (\h0F :> ControlCode("", 1, <<>>, "standard_command"))
    @@ (\h10 :> ControlCode("", 1, <<>>, "standard_command"))
    @@ (\h11 :> ControlCode("", 1, <<>>, "standard_command"))
    @@ (\h12 :> ControlCode("", 0, <<>>, "standard_command"))
    @@ (\h13 :> ControlCode("", 1, <<>>, "standard_command"))
    @@ (\h14 :> ControlCode("", 0, <<>>, "standard_command"))
    @@ (\h15 :> ControlCode("", 1, <<>>, "standard_command"))
    @@ (\h16 :> ControlCode("{DATE_LONG}", 0, <<4>>, "standard_command"))
    @@ (\h17 :> ControlCode("{DATE_SHORT}", 0, <<4>>, "standard_command"))
    @@ (\h18 :> ControlCode("{POWER}", 0, <<2>>, "standard_command"))
    @@ (\h19 :> ControlCode("{VOLUME_SHORT}", 0, <<2>>, "standard_command"))
    @@ (\h1A :> ControlCode("{WEIGHT_SHORT}", 0, <<2>>, "standard_command"))
    @@ (\h1B :> ControlCode("{CARGO_LONG}", 0, <<2, 2>>, "standard_command"))
    @@ (\h1C :> ControlCode("{CARGO_SHORT}", 0, <<2, 2>>, "standard_command"))
    @@ (\h1D :> ControlCode("{CARGO_TINY}", 0, <<2, 2>>, "standard_command"))
    @@ (\h1E :> ControlCode("{CARGO_NAME}", 0, <<2>>, "standard_command"))
    @@ (\h1F :> ControlCode("{PUSH_COLOUR}", 0, <<>>, "standard_command"))
    @@ (\h20 :> ControlCode("{POP_COLOUR}", 0, <<>>, "standard_command"))
    @@ (\h21 :> ControlCode("{FORCE}", 0, <<4>>, "standard_command"))

ALIASES ==
       (\h000D :> "{}")
    @@ (\h007B :> "{{}")
    @@ (\h00A0 :> "{NBSP}")
    @@ (\h00A9 :> "{COPYRIGHT}")
    @@ (\h200E :> "{LRM}")
    @@ (\h200F :> "{RLM}")
    @@ (\h202A :> "{LRE}")
    @@ (\h202B :> "{RLE}")
    @@ (\h202D :> "{LRO}")
    @@ (\h202E :> "{RLO}")
    @@ (\h202C :> "{PDF}")

\* dict.get(key, default)
Get(dict, key, default) == IF key \in DOMAIN dict THEN dict[key] ELSE default

\* The printable ASCII characters, chr(32) .. chr(126).
ASCII ==
    <<
    " ", "!", "&#34;", "#", "$", "%", "&", "'", "(", ")", "*", "+",
    ",", "-", ".", "/", "0", "1", "2", "3", "4", "5", "6", "7",
    "8", "9", ":", ";", "<", "=", ">", "?", "@", "A", "B", "C",
    "D", "E", "F", "G", "H", "I", "J", "K", "L", "M", "N", "O",
    "P", "Q", "R", "S", "T", "U", "V", "W", "X", "Y", "Z", "[",
    "\\", "]", "^", "_", "&#96;", "a", "b", "c", "d", "e", "f", "g",
    "h", "i", "j", "k", "l", "m", "n", "o", "p", "q", "r", "s",
    "t", "u", "v", "w", "x", "y", "z", "{", "|", "}", "~"
    >>

chr(c) ==
    IF c >= 32 /\ c <= 126 THEN ASCII[c - 31]
    ELSE "&#" \o ToString(c) \o ";"

(***************************************************************************)
(* TextRefStack: stack_index holds the original offsets of the slots still *)
(* held, commands the named commands seen so far.                          *)
(***************************************************************************)
TextRefStack ==
    [stack_index |-> [i \in 1..StackSlots |-> i - 1], commands |-> <<>>]

\* The loop of standard_command over cc.stack_param_size: each size takes
\* that many slots from the front and records the front slot as offset.
RECURSIVE take_params_clamped(_, _, _)
take_params_clamped(index, sizes, params) ==
    IF sizes = <<>>
    THEN [stack_index |-> index, stack_param |-> params, err |-> ""]
    ELSE LET size == Head(sizes)
         IN  IF Len(index) = 0
             THEN [stack_index |-> index, stack_param |-> params,
                   err |-> "IndexError"]
             ELSE take_params_clamped(
                      SubSeq(index, Min(size, Len(index)) + 1, Len(index)),
                      Tail(sizes),
                      Append(params, StackParam(index[1], size)))

RECURSIVE take_params(_, _, _)
take_params(index, sizes, params) ==
    IF sizes = <<>>
    THEN [stack_index |-> index, stack_param |-> params, err |-> ""]
    ELSE LET size == Head(sizes)
         IN  IF ~(Len(index) >= size)
             THEN [stack_index |-> index, stack_param |-> params,
                   err |-> "AssertionError"]
             ELSE IF Len(index) = 0
             THEN [stack_index |-> index, stack_param |-> params,
                   err |-> "IndexError"]
             ELSE take_params(SubSeq(index, size + 1, Len(index)),
                              Tail(sizes),
                              Append(params, StackParam(index[1], size)))

\* as standard_command, with the inline parameter bytes of a code that has
\* no stack parameter taken from the stack
standard_command_inline(st, cc) ==
    IF cc.inline_param_size # 0 \/ cc.stack_param_size # <<>>
    THEN LET tc == TextCommand(cc.base_name, cc.translation_name,
                               cc.inline_param_size)
             sizes == IF cc.stack_param_size = <<>>
                      THEN <<cc.inline_param_size>>
                      ELSE cc.stack_param_size
             taken == take_params(st.stack_index, sizes, <<>>)
         IN  [stack |->
                [stack_index |-> taken.stack_index,
                 commands |->
                    IF taken.err = "" /\ tc.base_name # ""
                    THEN Append(st.commands,
                                [tc EXCEPT !.stack_param = taken.stack_param])
                    ELSE st.commands],
              err |-> taken.err]
    ELSE [stack |-> st, err |-> ""]

standard_command(st, cc) ==
    IF cc.inline_param_size # 0 \/ cc.stack_param_size # <<>>
    THEN LET tc == TextCommand(cc.base_name, cc.translation_name,
                               cc.inline_param_size)
             taken == take_params(st.stack_index, cc.stack_param_size, <<>>)
         IN  [stack |->
                [stack_index |-> taken.stack_index,
                 commands |->
                    IF taken.err = "" /\ tc.base_name # ""
                    THEN Append(st.commands,
                                [tc EXCEPT !.stack_param = taken.stack_param])
                    ELSE st.commands],
              err |-> taken.err]
    ELSE [stack |-> st, err |-> ""]

push_word(st, cc) ==
    [stack |-> [st EXCEPT !.stack_index = <<-1, -1>> \o @], err |-> ""]

rotate_words_by_three(st, cc) ==
    LET index == st.stack_index
    IN  IF ~(Len(index) >= 8)
        THEN [stack |-> st, err |-> "AssertionError"]
        ELSE [stack |-> [st EXCEPT !.stack_index =
                            SubSeq(index, 6, 8) \o SubSeq(index, 1, 5)
                                \o SubSeq(index, 9, Len(index))],
              err |-> ""]

rotate_words(st, cc) ==
    LET index == st.stack_index
    IN  IF ~(Len(index) >= 8)
        THEN [stack |-> st, err |-> "AssertionError"]
        ELSE [stack |-> [st EXCEPT !.stack_index =
                            SubSeq(index, 7, 8) \o SubSeq(index, 1, 6)
                                \o SubSeq(index, 9, Len(index))],
              err |-> ""]

\* cc.command_handler(stack, cc)
command_handler(st, cc) ==
    CASE cc.command_handler = "standard_command" -> standard_command(st, cc)
      [] cc.command_handler = "push_word" -> push_word(st, cc)
      [] cc.command_handler = "rotate_words" -> rotate_words(st, cc)

\* The assignments result[sp.offset + i] = (CommandName, i) of
\* get_stack_types, in the order the three nested loops make them.
RECURSIVE param_items(_, _, _)
param_items(tc, sp, i) ==
    IF i >= sp.size THEN <<>>
    ELSE <<[key |-> sp.offset + i,
            val |-> <<CommandName(tc.base_name, tc.translation_name), i>>]>>
         \o param_items(tc, sp, i + 1)

RECURSIVE command_items(_, _)
command_items(tc, k) ==
    IF k > Len(tc.stack_param) THEN <<>>
    ELSE param_items(tc, tc.stack_param[k], 0) \o command_items(tc, k + 1)

RECURSIVE stack_items(_, _)
stack_items(commands, k) ==
    IF k > Len(commands) THEN <<>>
    ELSE command_items(commands[k], 1) \o stack_items(commands, k + 1)

\* A dict built by assignments in order: the last one to a key stays.
DictOf(items) ==
    [key \in {items[i].key : i \in DOMAIN items} |->
        LET last == CHOOSE i \in DOMAIN items :
                        /\ items[i].key = key
                        /\ \A j \in DOMAIN items : items[j].key = key => j <= i
        IN  items[last].val]

get_stack_types(st) == DictOf(stack_items(st.commands, 1))

(***************************************************************************)
(* getutf8(b, pos): pos counts from 0 as in the source, bytes[pos + 1] is  *)
(* Python's b[pos].  Returns [size, c], c = NoneInt for None.              *)
(***************************************************************************)
getutf8(bytes, p) ==
    LET at(i) == bytes[p + i + 1]
        cont(i) == BitAnd(at(i), \hC0) = \h80
    IN  IF p + 1 <= Len(bytes) /\ BitAnd(at(0), \h80) = 0
        THEN [size |-> 1, c |-> at(0)]
        ELSE IF p + 2 <= Len(bytes) /\ BitAnd(at(0), \hE0) = \hC0 /\ cont(1)
        THEN [size |-> 2,
              c |-> BitOr(Shl(BitAnd(at(0), \h1F), 6), BitAnd(at(1), \h3F))]
        ELSE IF /\ p + 3 <= Len(bytes)
                /\ BitAnd(at(0), \hF0) = \hE0 /\ cont(1) /\ cont(2)
        THEN [size |-> 3,
              c |-> BitOr(BitOr(Shl(BitAnd(at(0), \h0F), 12),
                                Shl(BitAnd(at(1), \h3F), 6)),
                          BitAnd(at(2), \h3F))]
        ELSE IF /\ p + 4 <= Len(bytes)
                /\ BitAnd(at(0), \hF8) = \hF0 /\ cont(1) /\ cont(2) /\ cont(3)
        THEN [size |-> 4,
              c |-> BitOr(BitOr(BitOr(Shl(BitAnd(at(0), \h07), 18),
                                      Shl(BitAnd(at(1), \h3F), 12)),
                                Shl(BitAnd(at(2), \h3F), 6)),
                          BitAnd(at(3), \h3F))]
        ELSE [size |-> 0, c |-> NoneInt]

(***************************************************************************)
(* decodestr.  One iteration of its while loop: the code point at pos,     *)
(* then the dispatch on it.                                                *)
(***************************************************************************)
\* Lines 203-215: the next code point c and the position after it.
code_point(bytes, p, uni) ==
    IF uni
    THEN LET u == getutf8(bytes, p)
         IN  IF u.size = 0
             THEN [c |-> \hE000 + bytes[p + 1], pos |-> p + 1]
             ELSE [c |-> u.c, pos |-> p + u.size]
    ELSE LET c == bytes[p + 1]
         IN  [c |-> IF c \in DOMAIN CTRL_CODES \/ c = \h9A THEN \hE000 + c ELSE c,
              pos |-> p + 1]

\* Lines 220-223 and 225-228: run the handler of cc, skip its inline
\* parameters, append its name.  dispatched is what the handler was given.
run_code(cc, p, res, st) ==
    LET handled == command_handler(st, cc)
    IN  IF handled.err # ""
        THEN [pos |-> p, result |-> res, stack |-> handled.stack,
              err |-> handled.err,
              dispatched |-> <<[cc |-> cc, held |-> st.stack_index]>>]
        ELSE [pos |-> p + cc.inline_param_size,
              result |-> res \o cc.translation_name,
              stack |-> handled.stack, err |-> "",
              dispatched |-> <<[cc |-> cc, held |-> st.stack_index]>>]

\* Lines 217-231.
dispatch(bytes, p, c, res, st) ==
    IF c = \hE09A
    THEN IF p >= Len(bytes)
         THEN [pos |-> p, result |-> res, stack |-> st, err |-> "IndexError",
               dispatched |-> <<>>]
         ELSE run_code(Get(EXT_CTRL_CODES, bytes[p + 1], DefaultControlCode),
                       p + 1, res, st)
    ELSE IF c >= \hE000 /\ c <= \hE0FF
    THEN run_code(Get(CTRL_CODES, c - \hE000, DefaultControlCode), p, res, st)
    ELSE IF c >= 32 \/ c = 13
    THEN [pos |-> p, result |-> res \o Get(ALIASES, c, chr(c)), stack |-> st,
          err |-> "", dispatched |-> <<>>]
    ELSE [pos |-> p, result |-> res, stack |-> st, err |-> "",
          dispatched |-> <<>>]

decode_iter(bytes, p, uni, res, st) ==
    LET cp == code_point(bytes, p, uni)
    IN  dispatch(bytes, cp.pos, cp.c, res, st)

(***************************************************************************)
(* newgrf.py.  Optional values: None is the empty sequence, a value x is   *)
(* <<x>>.  A dict is a function; bytes.decode gives a string through chr.  *)
(***************************************************************************)
\* x = e, then the statements after it
Let(x, Then(_)) == Then(x)

None == <<>>

Some(x) == <<x>>

\* dict[key] = value
Put(dict, key, value) == (key :> value) @@ dict

\* Python's b[lo:hi] and b[lo:]
Slice(bytes, lo, hi) == SubSeq(bytes, lo + 1, Min(hi, Len(bytes)))

SliceFrom(bytes, lo) == SubSeq(bytes, lo + 1, Len(bytes))

\* bytes.decode("ascii"): every byte below 0x80
RECURSIVE decode_ascii(_)
decode_ascii(bytes) ==
    IF bytes = <<>> THEN [val |-> "", err |-> ""]
    ELSE IF Head(bytes) >= \h80 THEN [val |-> "", err |-> "UnicodeDecodeError"]
    ELSE LET rest == decode_ascii(Tail(bytes))
         IN  IF rest.err # "" THEN rest
             ELSE [val |-> chr(Head(bytes)) \o rest.val, err |-> ""]

\* The length of the well-formed UTF-8 sequence bytes starts with, 0 when
\* it starts with none (Python's strict decoder).
utf8_size(bytes) ==
    LET n == Len(bytes)
        at(i) == bytes[i + 1]
        cont(i) == at(i) >= \h80 /\ at(i) <= \hBF
        within(i, lo, hi) == at(i) >= lo /\ at(i) <= hi
    IN  IF at(0) < \h80 THEN 1
        ELSE IF within(0, \hC2, \hDF) /\ n >= 2 /\ cont(1) THEN 2
        ELSE IF at(0) = \hE0 /\ n >= 3 /\ within(1, \hA0, \hBF) /\ cont(2) THEN 3
        ELSE IF at(0) = \hED /\ n >= 3 /\ within(1, \h80, \h9F) /\ cont(2) THEN 3
        ELSE IF /\ within(0, \hE1, \hEF) /\ at(0) # \hED
                /\ n >= 3 /\ cont(1) /\ cont(2) THEN 3
        ELSE IF /\ at(0) = \hF0 /\ n >= 4
                /\ within(1, \h90, \hBF) /\ cont(2) /\ cont(3) THEN 4
        ELSE IF /\ within(0, \hF1, \hF3) /\ n >= 4
                /\ cont(1) /\ cont(2) /\ cont(3) THEN 4
        ELSE IF /\ at(0) = \hF4 /\ n >= 4
                /\ within(1, \h80, \h8F) /\ cont(2) /\ cont(3) THEN 4
        ELSE 0

\* bytes.decode("utf-8")
RECURSIVE decode_utf8(_)
decode_utf8(bytes) ==
    IF bytes = <<>> THEN [val |-> "", err |-> ""]
    ELSE LET size == utf8_size(bytes)
         IN  IF size = 0 THEN [val |-> "", err |-> "UnicodeDecodeError"]
             ELSE LET rest == decode_utf8(SubSeq(bytes, size + 1, Len(bytes)))
                  IN  IF rest.err # "" THEN rest
                      ELSE [val |-> chr(getutf8(bytes, 0).c) \o rest.val,
                            err |-> ""]

HexDigits ==
    <<"0", "1", "2", "3", "4", "5", "6", "7", "8", "9", "A", "B", "C", "D",
      "E", "F">>

RECURSIVE Hex(_)
Hex(v) ==
    IF v < 16 THEN HexDigits[v + 1] ELSE Hex(v \div 16) \o HexDigits[(v % 16) + 1]

\* f"{index:04X}"
Hex04(index) ==
    CASE index < \h10 -> "000" \o Hex(index)
      [] index >= \h10 /\ index < \h100 -> "00" \o Hex(index)
      [] index >= \h100 /\ index < \h1000 -> "0" \o Hex(index)
      [] OTHER -> Hex(index)

\* int.from_bytes(bytes, byteorder="little", signed=False)
RECURSIVE from_bytes_little(_)
from_bytes_little(bytes) ==
    IF bytes = <<>> THEN 0
    ELSE Head(bytes) + (LET high == from_bytes_little(Tail(bytes))
                        IN  IF high = 0 THEN 0 ELSE 256 * high)

\* int.to_bytes(4, "little")
to_bytes_little4(v) ==
    <<v % 256, (v \div 256) % 256, (v \div 65536) % 256, v \div 16777216>>

GRFString == [str_name |-> "", translations |-> [key \in {} |-> <<>>]]

\* as add_text, every tag a language
add_text_plain(gs, lang_id, text) ==
    [gs |-> [gs EXCEPT !.translations = Put(@, lang_id, text)], err |-> ""]

add_text(gs, lang_id, text) ==
    IF lang_id = \h7E
    THEN LET name == decode_ascii(text)
         IN  IF name.err # "" THEN [gs |-> gs, err |-> name.err]
             ELSE [gs |-> [gs EXCEPT !.str_name = name.val], err |-> ""]
    ELSE [gs |-> [gs EXCEPT !.translations = Put(@, lang_id, text)],
          err |-> ""]

STR_GRF_NAME == "STR_GRF_NAME"

STR_GRF_DESCRIPTION == "STR_GRF_DESCRIPTION"

STR_GRF_URL == "STR_GRF_URL"

FEATURES ==
       (\h00 :> "TRAIN")
    @@ (\h01 :> "ROAD_VEHICLE")
    @@ (\h02 :> "SHIP")
    @@ (\h03 :> "AIRCRAFT")
    @@ (\h04 :> "STATION")
    @@ (\h05 :> "CANAL")
    @@ (\h06 :> "BRIDGE")
    @@ (\h07 :> "HOUSE")
    @@ (\h08 :> "GLOBAL")
    @@ (\h09 :> "INDUSTRY_TILE")
    @@ (\h0A :> "INDUSTRY")
    @@ (\h0B :> "CARGO")
    @@ (\h0C :> "SOUND_EFFECT")
    @@ (\h0D :> "AIRPORT")
    @@ (\h0E :> "SIGNAL")
    @@ (\h0F :> "OBJECT")
    @@ (\h10 :> "RAILTYPE")
    @@ (\h11 :> "AIRPORT_TILE")
    @@ (\h12 :> "ROADTYPE")
    @@ (\h13 :> "TRAMTYPE")
    @@ (\h14 :> "ROAD_STOP")

str_feature(feature, index) ==
    "STR_" \o Get(FEATURES, feature, ToString(feature)) \o "_" \o ToString(index)

\* as str_ext, every id a generic one
str_ext_generic(index) == "STR_GENERIC_" \o Hex04(index)

str_ext(index) ==
    IF \hC400 <= index /\ index < \hC500
    THEN "STR_STATION_CLASS_" \o ToString(index - \hC400) \o "_NAME"
    ELSE IF \hC500 <= index /\ index < \hC600
    THEN "STR_STATION_" \o ToString(index - \hC500) \o "_NAME"
    ELSE IF \hC900 <= index /\ index < \hCA00
    THEN "STR_HOUSE_" \o ToString(index - \hC900) \o "_NAME"
    ELSE "STR_GENERIC_" \o Hex04(index)

str_error(index) == "STR_ERROR_" \o ToString(index)

str_param_name(index) == "STR_PARAM_" \o ToString(index) \o "_NAME"

str_param_description(index) == "STR_PARAM_" \o ToString(index) \o "_DESCRIPTION"

ParserState == [action6_effect |-> FALSE, actionb_string |-> None]

\* NewGRF(): the class attributes and __init__.  strings, genders and
\* cases are defaultdicts: reading a missing key inserts its default.
NewGRF ==
    [md5sum |-> None, unique_id |-> None, grf_version |-> None,
     version |-> None, min_compatible_version |-> None,
     container_version |-> None,
     plurals |-> [key \in {} |-> 0],
     genders |-> [key \in {} |-> 0],
     cases |-> [key \in {} |-> 0],
     strings |-> [key \in {} |-> GRFString],
     feature_mapping |-> [key \in {} |-> 0],
     next_feature_map |-> None]

\* defaultdict[key]: the dict with key present
Touch(dict, key, default) ==
    IF key \in DOMAIN dict THEN dict ELSE Put(dict, key, default)

\* self.strings[key].add_text(lang_id, text)
strings_add_text(strings, key, lang_id, text) ==
    LET touched == Touch(strings, key, GRFString)
        added == add_text(touched[key], lang_id, text)
    IN  [strings |-> [touched EXCEPT ![key] = added.gs], err |-> added.err]

EmptyTable == [key \in {} |-> <<>>]

\* table[id][gi].append(name), table one of self.genders, self.cases
table_touch(table, id, gi) ==
    LET outer == Touch(table, id, EmptyTable)
    IN  [outer EXCEPT ![id] = Touch(@, gi, <<>>)]

table_append(table, id, gi, name) ==
    [table EXCEPT ![id][gi] = Append(@, name)]

(***************************************************************************)
(* NewGRF.read_pseudo and NewGRF.read_a14, statement by statement:         *)
(* Let(e, LAMBDA x : rest) is "x = e" followed by rest.  Each returns the  *)
(* instance and the parser state as the code left them, which on a raise   *)
(* is the state at the raising statement.                                  *)
(***************************************************************************)
\* the loop "while True: gi = reader.uint8() ..." of properties 0x13, 0x14
RECURSIVE names_loop(_, _, _)
names_loop(table, r, id) ==
    Let(uint8(r), LAMBDA gi :
    IF gi.err # "" THEN [table |-> table, reader |-> gi.reader, err |-> gi.err]
    ELSE IF gi.val = 0 THEN [table |-> table, reader |-> gi.reader, err |-> ""]
    ELSE Let(table_touch(table, id, gi.val), LAMBDA touched :
         Let(str(gi.reader), LAMBDA text :
         Let(decode_utf8(text.val), LAMBDA name :
         IF name.err # ""
         THEN [table |-> touched, reader |-> text.reader, err |-> name.err]
         ELSE names_loop(table_append(touched, id, gi.val, name.val),
                         text.reader, id)))))

\* "for i in range(num_ids)" around names_loop
RECURSIVE ids_loop(_, _, _, _, _)
ids_loop(table, r, i, num_ids, first_id) ==
    IF i = num_ids THEN [table |-> table, reader |-> r, err |-> ""]
    ELSE Let(names_loop(table, r, first_id + i), LAMBDA names :
         IF names.err # "" THEN names
         ELSE ids_loop(names.table, names.reader, i + 1, num_ids, first_id))

\* as plurals_loop, every form stored under the first id
RECURSIVE plurals_loop_first(_, _, _, _, _)
plurals_loop_first(plurals, r, i, num_ids, first_id) ==
    IF i = num_ids THEN [table |-> plurals, reader |-> r, err |-> ""]
    ELSE Let(uint8(r), LAMBDA form :
         IF form.err # ""
         THEN [table |-> plurals, reader |-> form.reader, err |-> form.err]
         ELSE plurals_loop_first(Put(plurals, first_id, form.val), form.reader,
                                 i + 1, num_ids, first_id))

\* "for i in range(num_ids): self.plurals[first_id + i] = reader.uint8()"
RECURSIVE plurals_loop(_, _, _, _, _)
plurals_loop(plurals, r, i, num_ids, first_id) ==
    IF i = num_ids THEN [table |-> plurals, reader |-> r, err |-> ""]
    ELSE Let(uint8(r), LAMBDA form :
         IF form.err # ""
         THEN [table |-> plurals, reader |-> form.reader, err |-> form.err]
         ELSE plurals_loop(Put(plurals, first_id + i, form.val), form.reader,
                           i + 1, num_ids, first_id))

\* "for _ in range(num_props)" of action 0x00, feature 0x08
RECURSIVE props_loop(_, _, _, _, _)
props_loop(self, r, left, num_ids, first_id) ==
    IF left = 0 THEN [self |-> self, err |-> ""]
    ELSE
    Let(uint8(r), LAMBDA prop :
    IF prop.err # "" THEN [self |-> self, err |-> prop.err]
    ELSE IF prop.val = \h08
    THEN props_loop(self, skip(prop.reader, num_ids), left - 1, num_ids,
                    first_id)
    ELSE IF prop.val = \h10
    THEN props_loop(self, skip(prop.reader, 12 * 32 * num_ids), left - 1,
                    num_ids, first_id)
    ELSE IF prop.val \in {\h0A, \h0C, \h0F}
    THEN props_loop(self, skip(prop.reader, 2 * num_ids), left - 1, num_ids,
                    first_id)
    ELSE IF prop.val \in {\h09, \h0B, \h0D, \h0E, \h12, \h16, \h17}
    THEN props_loop(self, skip(prop.reader, 4 * num_ids), left - 1, num_ids,
                    first_id)
    ELSE IF prop.val = \h11
    THEN props_loop(self, skip(prop.reader, 8 * num_ids), left - 1, num_ids,
                    first_id)
    ELSE IF prop.val = \h13
    THEN Let(ids_loop(self.genders, prop.reader, 0, num_ids, first_id),
             LAMBDA names :
         Let([self EXCEPT !.genders = names.table], LAMBDA named :
         IF names.err # "" THEN [self |-> named, err |-> names.err]
         ELSE props_loop(named, names.reader, left - 1, num_ids, first_id)))
    ELSE IF prop.val = \h14
    THEN Let(ids_loop(self.cases, prop.reader, 0, num_ids, first_id),
             LAMBDA names :
         Let([self EXCEPT !.cases = names.table], LAMBDA named :
         IF names.err # "" THEN [self |-> named, err |-> names.err]
         ELSE props_loop(named, names.reader, left - 1, num_ids, first_id)))
    ELSE IF prop.val = \h15
    THEN Let(plurals_loop(self.plurals, prop.reader, 0, num_ids, first_id),
             LAMBDA forms :
         Let([self EXCEPT !.plurals = forms.table], LAMBDA formed :
         IF forms.err # "" THEN [self |-> formed, err |-> forms.err]
         ELSE props_loop(formed, forms.reader, left - 1, num_ids, first_id)))
    ELSE [self |-> self, err |-> ""])

\* what read_pseudo hands back: the return value, or the exception
Returns(self, state, skip_sprites) ==
    [self |-> self, state |-> state, skip_sprites |-> skip_sprites, err |-> ""]

Raises(self, state, err) ==
    [self |-> self, state |-> state, skip_sprites |-> 0, err |-> err]

\* action 0x00
read_pseudo_00(self, state, r) ==
    Let(uint8(r), LAMBDA feat0 :
    IF feat0.err # "" THEN Raises(self, state, feat0.err)
    ELSE
    Let(Get(self.feature_mapping, feat0.val, feat0.val), LAMBDA feat :
    Let(uint8(feat0.reader), LAMBDA num_props :
    IF num_props.err # "" THEN Raises(self, state, num_props.err)
    ELSE
    Let(uint8(num_props.reader), LAMBDA num_ids :
    IF num_ids.err # "" THEN Raises(self, state, num_ids.err)
    ELSE IF num_ids.val = 0 THEN Returns(self, state, 0)
    ELSE
    Let(uint_ext(num_ids.reader), LAMBDA first_id :
    IF first_id.err # "" THEN Raises(self, state, first_id.err)
    ELSE IF feat # \h08 THEN Returns(self, state, 0)
    ELSE
    Let(props_loop(self, first_id.reader, num_props.val, num_ids.val,
                   first_id.val), LAMBDA props :
    IF props.err # "" THEN Raises(props.self, state, props.err)
    ELSE Returns(props.self, state, 0)))))))

\* as read_pseudo_01, the fallback reading two extended bytes in all
read_pseudo_01_pair(self, state, r, pseudo) ==
    Let(uint8(r), LAMBDA feat :
    IF feat.err # "" THEN Raises(self, state, feat.err)
    ELSE
    Let(uint8(feat.reader), LAMBDA short :
    IF short.err # "" THEN Raises(self, state, short.err)
    ELSE
    Let(IF short.val = 0 /\ Len(pseudo) - 3 >= 3
        THEN uint_ext(short.reader)
        ELSE short, LAMBDA num_sets :
    IF num_sets.err # "" THEN Raises(self, state, num_sets.err)
    ELSE
    Let(uint_ext(num_sets.reader), LAMBDA num_ent :
    IF num_ent.err # "" THEN Raises(self, state, num_ent.err)
    ELSE Returns(self, state, num_sets.val * num_ent.val)))))

\* action 0x01
read_pseudo_01(self, state, r, pseudo) ==
    Let(uint8(r), LAMBDA feat :
    IF feat.err # "" THEN Raises(self, state, feat.err)
    ELSE
    Let(uint8(feat.reader), LAMBDA short :
    IF short.err # "" THEN Raises(self, state, short.err)
    ELSE
    Let(IF short.val = 0 /\ Len(pseudo) - 3 >= 3
        THEN Let(uint_ext(short.reader), LAMBDA zero :
             IF zero.err # "" THEN zero ELSE uint_ext(zero.reader))
        ELSE short, LAMBDA num_sets :
    IF num_sets.err # "" THEN Raises(self, state, num_sets.err)
    ELSE
    Let(uint_ext(num_sets.reader), LAMBDA num_ent :
    IF num_ent.err # "" THEN Raises(self, state, num_ent.err)
    ELSE Returns(self, state, num_sets.val * num_ent.val)))))

\* "for i in range(num_ids): self.strings[str_id(first_id + i)].add_text(...)"
RECURSIVE texts_loop(_, _, _, _, _, _, _, _)
texts_loop(strings, r, i, num_ids, first_id, feat, ext, lang_id) ==
    IF i = num_ids THEN [strings |-> strings, err |-> ""]
    ELSE
    Let(IF ext THEN str_ext(first_id + i) ELSE str_feature(feat, first_id + i),
        LAMBDA key :
    Let(str(r), LAMBDA text :
    Let(strings_add_text(strings, key, lang_id, text.val), LAMBDA added :
    IF added.err # "" THEN added
    ELSE texts_loop(added.strings, text.reader, i + 1, num_ids, first_id,
                    feat, ext, lang_id))))

\* action 0x04
read_pseudo_04(self, state, r) ==
    Let(uint8(r), LAMBDA feat0 :
    IF feat0.err # "" THEN Raises(self, state, feat0.err)
    ELSE
    Let(Get(self.feature_mapping, feat0.val, feat0.val), LAMBDA feat :
    Let(uint8(feat0.reader), LAMBDA lang_id :
    IF lang_id.err # "" THEN Raises(self, state, lang_id.err)
    ELSE
    Let(uint8(lang_id.reader), LAMBDA num_ids :
    IF num_ids.err # "" THEN Raises(self, state, num_ids.err)
    ELSE
    Let(lang_id.val >= \h80, LAMBDA ext :
    Let(IF ext THEN uint16(num_ids.reader, FALSE) ELSE uint_ext(num_ids.reader),
        LAMBDA first_id :
    IF first_id.err # "" THEN Raises(self, state, first_id.err)
    ELSE
    Let(texts_loop(self.strings, first_id.reader, 0, num_ids.val,
                   first_id.val, feat, ext,
                   IF ext THEN lang_id.val - \h80 ELSE lang_id.val),
        LAMBDA texts :
    Let([self EXCEPT !.strings = texts.strings], LAMBDA added :
    IF texts.err # "" THEN Raises(added, state, texts.err)
    ELSE Returns(added, state, 0)))))))))

\* action 0x05
read_pseudo_05(self, state, r) ==
    Let(uint_ext(skip(r, 1)), LAMBDA count :
    IF count.err # "" THEN Raises(self, state, count.err)
    ELSE Returns(self, state, count.val))

\* action 0x08
read_pseudo_08(self, state, r) ==
    Let(uint8(r), LAMBDA grf_version :
    IF grf_version.err # "" THEN Raises(self, state, grf_version.err)
    ELSE
    Let([self EXCEPT !.grf_version = Some(grf_version.val)], LAMBDA self1 :
    Let(uint32(grf_version.reader, FALSE), LAMBDA unique_id :
    IF unique_id.err # "" THEN Raises(self1, state, unique_id.err)
    ELSE
    Let([self1 EXCEPT !.unique_id = Some(to_bytes_little4(unique_id.val))],
        LAMBDA self2 :
    Let(str(unique_id.reader), LAMBDA name :
    Let(strings_add_text(self2.strings, STR_GRF_NAME, \h7F, name.val),
        LAMBDA named :
    Let(str(name.reader), LAMBDA description :
    Let(strings_add_text(named.strings, STR_GRF_DESCRIPTION, \h7F,
                         description.val), LAMBDA described :
    Returns([self2 EXCEPT !.strings = described.strings], state, 0)))))))))

\* the loops of actions 0x0A (lead = 0) and 0x12 (lead = 1):
\* "reader.skip(lead); skip_sprites += reader.uint8(); reader.skip(2)"
RECURSIVE sets_loop(_, _, _, _)
sets_loop(r, left, lead, skip_sprites) ==
    IF left = 0 THEN [val |-> skip_sprites, err |-> ""]
    ELSE Let(uint8(skip(r, lead)), LAMBDA count :
         IF count.err # "" THEN [val |-> skip_sprites, err |-> count.err]
         ELSE sets_loop(skip(count.reader, 2), left - 1, lead,
                        skip_sprites + count.val))

\* actions 0x0A and 0x12
read_pseudo_sets(self, state, r, lead) ==
    Let(uint8(r), LAMBDA num_sets :
    IF num_sets.err # "" THEN Raises(self, state, num_sets.err)
    ELSE
    Let(sets_loop(num_sets.reader, num_sets.val, lead, 0), LAMBDA sets :
    IF sets.err # "" THEN Raises(self, state, sets.err)
    ELSE Returns(self, state, sets.val)))

\* as read_pseudo_0B, the language tag 0x7F leaving the string held
read_pseudo_0B_open(self, state, r, sprite_index) ==
    Let(IF state.actionb_string = None THEN str_error(sprite_index)
        ELSE state.actionb_string[1], LAMBDA key :
    Let([self EXCEPT !.strings = IF state.actionb_string = None
                                 THEN Touch(@, key, GRFString) ELSE @],
        LAMBDA opened :
    Let([state EXCEPT !.actionb_string = Some(key)], LAMBDA held :
    Let(uint8(skip(r, 1)), LAMBDA lang_id :
    IF lang_id.err # "" THEN Raises(opened, held, lang_id.err)
    ELSE
    Let(str(skip(lang_id.reader, 1)), LAMBDA text :
    Let(IF text.val # <<>>
        THEN strings_add_text(opened.strings, key, lang_id.val, text.val)
        ELSE [strings |-> opened.strings, err |-> ""], LAMBDA added :
    IF added.err # ""
    THEN Raises([opened EXCEPT !.strings = added.strings], held, added.err)
    ELSE Returns([opened EXCEPT !.strings = added.strings], held, 0)))))))

\* action 0x0B; state.actionb_string refers to an entry of self.strings,
\* held here as the entry's key
read_pseudo_0B(self, state, r, sprite_index) ==
    Let(IF state.actionb_string = None THEN str_error(sprite_index)
        ELSE state.actionb_string[1], LAMBDA key :
    Let([self EXCEPT !.strings = IF state.actionb_string = None
                                 THEN Touch(@, key, GRFString) ELSE @],
        LAMBDA opened :
    Let([state EXCEPT !.actionb_string = Some(key)], LAMBDA held :
    Let(uint8(skip(r, 1)), LAMBDA lang_id :
    IF lang_id.err # "" THEN Raises(opened, held, lang_id.err)
    ELSE
    Let(str(skip(lang_id.reader, 1)), LAMBDA text :
    Let(IF text.val # <<>>
        THEN strings_add_text(opened.strings, key, lang_id.val, text.val)
        ELSE [strings |-> opened.strings, err |-> ""], LAMBDA added :
    IF added.err # ""
    THEN Raises([opened EXCEPT !.strings = added.strings], held, added.err)
    ELSE Returns([opened EXCEPT !.strings = added.strings],
                 IF lang_id.val = \h7F
                 THEN [held EXCEPT !.actionb_string = None] ELSE held,
                 0)))))))

\* action 0x11
read_pseudo_11(self, state, r) ==
    Let(uint16(r, FALSE), LAMBDA count :
    IF count.err # "" THEN Raises(self, state, count.err)
    ELSE Returns(self, state, count.val))

\* The byte strings read_a14 compares paths with.
FIDMFTID == <<\h46, \h49, \h44, \h4D, \h46, \h54, \h49, \h44>>

FIDMNAME == <<\h46, \h49, \h44, \h4D, \h4E, \h41, \h4D, \h45>>

INFOVRSN == <<\h49, \h4E, \h46, \h4F, \h56, \h52, \h53, \h4E>>

INFOMINV == <<\h49, \h4E, \h46, \h4F, \h4D, \h49, \h4E, \h56>>

INFONAME == <<\h49, \h4E, \h46, \h4F, \h4E, \h41, \h4D, \h45>>

INFODESC == <<\h49, \h4E, \h46, \h4F, \h44, \h45, \h53, \h43>>

INFOURL_ == <<\h49, \h4E, \h46, \h4F, \h55, \h52, \h4C, \h5F>>

INFOPARA == <<\h49, \h4E, \h46, \h4F, \h50, \h41, \h52, \h41>>

NAME == <<\h4E, \h41, \h4D, \h45>>

DESC == <<\h44, \h45, \h53, \h43>>

\* sdata == "road_stops": a bytearray never equals a str
bytearray_eq_str(sdata, text) == FALSE

\* the version fields of the "B" branch of read_a14
read_a14_version(self, subpath, size, bdata) ==
    IF subpath = INFOVRSN /\ size >= 4
    THEN Let(uint32(bdata, FALSE), LAMBDA number :
         IF number.err # "" THEN [self |-> self, err |-> number.err]
         ELSE [self |-> [self EXCEPT !.version = Some(number.val)],
               err |-> ""])
    ELSE IF subpath = INFOMINV /\ size >= 4
    THEN Let(uint32(bdata, FALSE), LAMBDA number :
         IF number.err # "" THEN [self |-> self, err |-> number.err]
         ELSE [self |-> [self EXCEPT !.min_compatible_version =
                                        Some(number.val)],
               err |-> ""])
    ELSE [self |-> self, err |-> ""]

\* the "B" branch of read_a14, after the data was read
read_a14_binary(self, subpath, size, data) ==
    Let(BinaryReader(data, FALSE), LAMBDA bdata :
    IF /\ subpath = FIDMFTID
       /\ self.next_feature_map # None
       /\ self.next_feature_map # Some(0)
    THEN Let(uint8(bdata), LAMBDA id :
         IF id.err # "" THEN [self |-> self, err |-> id.err]
         ELSE read_a14_version(
                  [self EXCEPT
                     !.feature_mapping = Put(@, id.val, self.next_feature_map[1]),
                     !.next_feature_map = None],
                  subpath, size, id.reader))
    ELSE read_a14_version(self, subpath, size, bdata))

\* self.strings[key].add_text(grflangid, sdata) of the "T" branch
read_a14_add(self, key, grflangid, sdata) ==
    Let(strings_add_text(self.strings, key, grflangid, sdata), LAMBDA added :
    [self |-> [self EXCEPT !.strings = added.strings], err |-> added.err])

\* the "T" branch of read_a14, after the text was read
read_a14_text(self, subpath, grflangid, sdata) ==
    Let(IF subpath = FIDMNAME /\ bytearray_eq_str(sdata, "road_stops")
        THEN [self EXCEPT !.next_feature_map = Some(\h14)]
        ELSE self, LAMBDA self1 :
    IF subpath = INFONAME
    THEN read_a14_add(self1, STR_GRF_NAME, grflangid, sdata)
    ELSE IF subpath = INFODESC
    THEN read_a14_add(self1, STR_GRF_DESCRIPTION, grflangid, sdata)
    ELSE IF subpath = INFOURL_
    THEN read_a14_add(self1, STR_GRF_URL, grflangid, sdata)
    ELSE IF Slice(subpath, 0, 8) = INFOPARA /\ SliceFrom(subpath, 12) = NAME
    THEN read_a14_add(self1,
                      str_param_name(from_bytes_little(Slice(subpath, 8, 12))),
                      grflangid, sdata)
    ELSE IF Slice(subpath, 0, 8) = INFOPARA /\ SliceFrom(subpath, 12) = DESC
    THEN read_a14_add(self1,
                      str_param_description(
                          from_bytes_little(Slice(subpath, 8, 12))),
                      grflangid, sdata)
    ELSE [self |-> self1, err |-> ""])

\* what read_a14 hands back; val is the returned bool
Walked(self, r, val, err) == [self |-> self, reader |-> r, val |-> val, err |-> err]

RECURSIVE read_a14(_, _, _)
read_a14(self, r, path) ==
    Let(uint8(r), LAMBDA type_id :
    IF type_id.err # "" THEN Walked(self, type_id.reader, FALSE, type_id.err)
    ELSE IF type_id.val = 0 THEN Walked(self, type_id.reader, TRUE, "")
    ELSE
    Let(read(type_id.reader, 4), LAMBDA name :
    Let(path \o name.val, LAMBDA subpath :
    IF type_id.val = \h43
    THEN Let(read_a14(self, name.reader, subpath), LAMBDA inner :
         IF inner.err # "" \/ ~inner.val THEN inner
         ELSE read_a14(inner.self, inner.reader, path))
    ELSE IF type_id.val = \h42
    THEN Let(uint16(name.reader, FALSE), LAMBDA size :
         IF size.err # "" THEN Walked(self, size.reader, FALSE, size.err)
         ELSE
         Let(read(size.reader, size.val), LAMBDA data :
         Let(read_a14_binary(self, subpath, size.val, data.val),
             LAMBDA binary :
         IF binary.err # ""
         THEN Walked(binary.self, data.reader, FALSE, binary.err)
         ELSE read_a14(binary.self, data.reader, path))))
    ELSE IF type_id.val = \h54
    THEN Let(uint8(name.reader), LAMBDA grflangid :
         IF grflangid.err # ""
         THEN Walked(self, grflangid.reader, FALSE, grflangid.err)
         ELSE
         Let(str(grflangid.reader), LAMBDA sdata :
         Let(read_a14_text(self, subpath, grflangid.val, sdata.val),
             LAMBDA text :
         IF text.err # "" THEN Walked(text.self, sdata.reader, FALSE, text.err)
         ELSE read_a14(text.self, sdata.reader, path))))
    ELSE Walked(self, name.reader, FALSE, ""))))

\* as read_pseudo_14, a failed walk raised as an exception
read_pseudo_14_fatal(self, state, r) ==
    Let(read_a14(self, r, <<>>), LAMBDA nodes :
    IF nodes.err # "" THEN Raises(nodes.self, state, nodes.err)
    ELSE IF ~nodes.val THEN Raises(nodes.self, state, "Invalid Action 14.")
    ELSE Returns(nodes.self, state, 0))

\* action 0x14
read_pseudo_14(self, state, r) ==
    Let(read_a14(self, r, <<>>), LAMBDA nodes :
    IF nodes.err # "" THEN Raises(nodes.self, state, nodes.err)
    ELSE Returns(nodes.self, state, 0))

read_pseudo(self, sprite_index, pseudo, state) ==
    Let(uint8(BinaryReader(pseudo, FALSE)), LAMBDA action :
    IF action.err # "" THEN Raises(self, state, action.err)
    ELSE IF action.val = \h00 THEN read_pseudo_00(self, state, action.reader)
    ELSE IF action.val = \h01
    THEN read_pseudo_01(self, state, action.reader, pseudo)
    ELSE IF action.val = \h04 THEN read_pseudo_04(self, state, action.reader)
    ELSE IF action.val = \h05 THEN read_pseudo_05(self, state, action.reader)
    ELSE IF action.val = \h06
    THEN Returns(self, [state EXCEPT !.action6_effect = TRUE], 0)
    ELSE IF action.val \in {\h07, \h09}
    THEN Returns(self, [state EXCEPT !.actionb_string = None], 0)
    ELSE IF action.val = \h08 THEN read_pseudo_08(self, state, action.reader)
    ELSE IF action.val = \h0A
    THEN read_pseudo_sets(self, state, action.reader, 0)
    ELSE IF action.val = \h0B
    THEN read_pseudo_0B(self, state, action.reader, sprite_index)
    ELSE IF action.val = \h11 THEN read_pseudo_11(self, state, action.reader)
    ELSE IF action.val = \h12
    THEN read_pseudo_sets(self, state, action.reader, 1)
    ELSE IF action.val = \h14 THEN read_pseudo_14(self, state, action.reader)
    ELSE Returns(self, state, 0))

(***************************************************************************)
(* NewGRF.read, in the three stretches of its body: the container header,  *)
(* one turn of the record loop, and what follows the loop.  frame holds    *)
(* the locals size, skip_sprites, sprite_index and state.                  *)
(***************************************************************************)
MAGIC == <<\h47, \h52, \h46, \h82, \h0D, \h0A, \h1A, \h0A>>

\* hashlib.md5 over the bytes handed to update(); the digest stands for
\* the bytes it was computed from
md5_digest(hashed) == [md5 |-> hashed]

\* what read_header hands back: the instance, the reader, the first size
Headed(self, r, size, err) ==
    [self |-> self, reader |-> r, size |-> size, err |-> err]

\* as read_header, with the version recorded once the compression
\* selector was accepted
read_header_late(self, r) ==
    Let(uint16(r, FALSE), LAMBDA first :
    IF first.err # "" THEN Headed(self, first.reader, 0, first.err)
    ELSE IF first.val # 0
    THEN Headed([self EXCEPT !.container_version = Some(1)], first.reader,
                first.val, "")
    ELSE
    Let(read(first.reader, 8), LAMBDA magic :
    IF magic.val # MAGIC
    THEN Headed(self, magic.reader, 0, "Neither container 1 nor 2.")
    ELSE
    Let(uint32(magic.reader, FALSE), LAMBDA total :
    IF total.err # "" THEN Headed(self, total.reader, 0, total.err)
    ELSE
    Let(uint8(total.reader), LAMBDA compression :
    IF compression.err # ""
    THEN Headed(self, compression.reader, 0, compression.err)
    ELSE IF compression.val # 0
    THEN Headed(self, compression.reader, 0,
                "Unknown container 2 compression.")
    ELSE
    Let([self EXCEPT !.container_version = Some(2)], LAMBDA self2 :
    Let(uint32(compression.reader, FALSE), LAMBDA size :
    IF size.err # "" THEN Headed(self2, size.reader, 0, size.err)
    ELSE Headed(self2, size.reader, size.val, "")))))))

read_header(self, r) ==
    Let(uint16(r, FALSE), LAMBDA first :
    IF first.err # "" THEN Headed(self, first.reader, 0, first.err)
    ELSE IF first.val # 0
    THEN Headed([self EXCEPT !.container_version = Some(1)], first.reader,
                first.val, "")
    ELSE
    Let(read(first.reader, 8), LAMBDA magic :
    IF magic.val # MAGIC
    THEN Headed(self, magic.reader, 0, "Neither container 1 nor 2.")
    ELSE
    Let([self EXCEPT !.container_version = Some(2)], LAMBDA self2 :
    Let(uint32(magic.reader, FALSE), LAMBDA total :
    IF total.err # "" THEN Headed(self2, total.reader, 0, total.err)
    ELSE
    Let(uint8(total.reader), LAMBDA compression :
    IF compression.err # ""
    THEN Headed(self2, compression.reader, 0, compression.err)
    ELSE IF compression.val # 0
    THEN Headed(self2, compression.reader, 0,
                "Unknown container 2 compression.")
    ELSE
    Let(uint32(compression.reader, FALSE), LAMBDA size :
    IF size.err # "" THEN Headed(self2, size.reader, 0, size.err)
    ELSE Headed(self2, size.reader, size.val, "")))))))

\* as sprite_loop, a chunk beyond the size ending the walk
RECURSIVE sprite_loop_loose(_, _)
sprite_loop_loose(r, size) ==
    IF size <= 0 THEN [reader |-> r, err |-> ""]
    ELSE
    Let(uint8(r), LAMBDA code :
    IF code.err # "" THEN [reader |-> code.reader, err |-> code.err]
    ELSE
    Let(IF code.val < \h80 THEN (IF code.val = 0 THEN \h80 ELSE code.val)
        ELSE 32 - Shr(code.val, 3), LAMBDA i :
    Let(IF code.val < \h80 THEN skip(code.reader, i) ELSE skip(code.reader, 1),
        LAMBDA skipped :
    sprite_loop_loose(skipped, size - i))))

\* as sprite_loop, the length of a back-reference taken from the low bits
RECURSIVE sprite_loop_low(_, _)
sprite_loop_low(r, size) ==
    IF size <= 0 THEN [reader |-> r, err |-> ""]
    ELSE
    Let(uint8(r), LAMBDA code :
    IF code.err # "" THEN [reader |-> code.reader, err |-> code.err]
    ELSE
    Let(IF code.val < \h80 THEN (IF code.val = 0 THEN \h80 ELSE code.val)
        ELSE 32 - BitAnd(code.val, \h1F), LAMBDA i :
    Let(IF code.val < \h80 THEN skip(code.reader, i) ELSE skip(code.reader, 1),
        LAMBDA skipped :
    IF i > size THEN [reader |-> skipped, err |-> "Failed sprite decoding."]
    ELSE sprite_loop_low(skipped, size - i))))

\* "while size > 0" of a container-1 real sprite
RECURSIVE sprite_loop(_, _)
sprite_loop(r, size) ==
    IF size <= 0 THEN [reader |-> r, err |-> ""]
    ELSE
    Let(uint8(r), LAMBDA code :
    IF code.err # "" THEN [reader |-> code.reader, err |-> code.err]
    ELSE
    Let(IF code.val < \h80 THEN (IF code.val = 0 THEN \h80 ELSE code.val)
        ELSE 32 - Shr(code.val, 3), LAMBDA i :
    Let(IF code.val < \h80 THEN skip(code.reader, i) ELSE skip(code.reader, 1),
        LAMBDA skipped :
    IF i > size THEN [reader |-> skipped, err |-> "Failed sprite decoding."]
    ELSE sprite_loop(skipped, size - i))))

\* the locals of read when the record loop is entered
Frame(size) ==
    [size |-> size, skip_sprites |-> 0, sprite_index |-> 0, state |-> ParserState]

\* What one record did: its info byte, the branch taken (dispatched: handed
\* to read_pseudo; skipped: a pseudo sprite discarded; read: a pseudo
\* sprite read but not handed over; real: any other info byte), the budget
\* before and after, and the exception if one was raised.
Event(info, kind, before, after, err) ==
    [info |-> info, kind |-> kind, before |-> before, after |-> after,
     err |-> err]

\* the body of the loop up to "sprite_index += 1"
Body(self, state, skip_sprites, r, kind, err) ==
    [self |-> self, state |-> state, skip_sprites |-> skip_sprites,
     reader |-> r, kind |-> kind, err |-> err]

\* as real_budget, the budget left as it is
real_budget_kept(skip_sprites) == skip_sprites

\* "if skip_sprites > 0: skip_sprites -= 1" of a real sprite
real_budget(skip_sprites) ==
    IF skip_sprites > 0 THEN skip_sprites - 1 ELSE skip_sprites

\* as pseudo_sprite, the record of sprite 0 handed to read_pseudo too
pseudo_sprite_all(self, fr, r) ==
    IF fr.skip_sprites > 0
    THEN Body(self, [fr.state EXCEPT !.action6_effect = FALSE],
              fr.skip_sprites - 1, skip(r, fr.size), "skipped", "")
    ELSE
    Let(read(r, fr.size), LAMBDA pseudo :
    Let(read_pseudo(self, fr.sprite_index, pseudo.val, fr.state),
        LAMBDA called :
    Body(called.self, called.state,
         IF called.err = "" THEN called.skip_sprites ELSE fr.skip_sprites,
         pseudo.reader, "dispatched", called.err)))

\* "if info == 0xFF: ..."
pseudo_sprite(self, fr, r) ==
    IF fr.skip_sprites > 0
    THEN Body(self, [fr.state EXCEPT !.action6_effect = FALSE],
              fr.skip_sprites - 1, skip(r, fr.size), "skipped", "")
    ELSE
    Let(read(r, fr.size), LAMBDA pseudo :
    IF fr.sprite_index # 0
    THEN Let(read_pseudo(self, fr.sprite_index, pseudo.val, fr.state),
             LAMBDA called :
         Body(called.self, called.state,
              IF called.err = "" THEN called.skip_sprites ELSE fr.skip_sprites,
              pseudo.reader, "dispatched", called.err))
    ELSE Body(self, fr.state, fr.skip_sprites, pseudo.reader, "read", ""))

\* "else: ..." of "if info == 0xFF"
real_sprite(self, fr, r, info) ==
    Let([fr.state EXCEPT !.action6_effect = FALSE], LAMBDA state :
    Let(real_budget(fr.skip_sprites), LAMBDA skip_sprites :
    IF self.container_version = Some(2) /\ info = \hFD
    THEN Body(self, state, skip_sprites, skip(r, fr.size), "real", "")
    ELSE IF self.container_version = Some(1) /\ fr.size >= 8
    THEN Let(IF BitAnd(info, \h02) # 0
             THEN [reader |-> skip(skip(r, 7), fr.size - 8), err |-> ""]
             ELSE sprite_loop(skip(r, 7), fr.size - 8), LAMBDA decoded :
         Body(self, state, skip_sprites, decoded.reader, "real", decoded.err))
    ELSE Body(self, state, skip_sprites, r, "real", "Unknown info byte.")))

\* what read_record hands back; event is None when no info byte was read
Recorded(self, fr, r, event, err) ==
    [self |-> self, frame |-> fr, reader |-> r, event |-> event, err |-> err]

\* one turn of "while size != 0"
read_record(self, fr, r) ==
    Let(uint8(r), LAMBDA info :
    IF info.err # "" THEN Recorded(self, fr, info.reader, None, info.err)
    ELSE
    Let(IF info.val = \hFF THEN pseudo_sprite(self, fr, info.reader)
        ELSE real_sprite(self, fr, info.reader, info.val), LAMBDA body :
    Let(Some(Event(info.val, body.kind, fr.skip_sprites, body.skip_sprites,
                   body.err)), LAMBDA event :
    Let([fr EXCEPT !.state = body.state, !.skip_sprites = body.skip_sprites],
        LAMBDA turned :
    IF body.err # ""
    THEN Recorded(body.self, turned, body.reader, event, body.err)
    ELSE
    Let(IF self.container_version = Some(2) THEN uint32(body.reader, FALSE)
        ELSE uint16(body.reader, FALSE), LAMBDA size :
    IF size.err # ""
    THEN Recorded(body.self, [turned EXCEPT !.sprite_index = @ + 1],
                  size.reader, event, size.err)
    ELSE Recorded(body.self,
                  [turned EXCEPT !.sprite_index = @ + 1, !.size = size.val],
                  size.reader, event, ""))))))

\* as blocks_loop, ended by the first tag whatever it is
blocks_loop_tag(r) ==
    Let(uint32(r, FALSE), LAMBDA id : [reader |-> id.reader, err |-> id.err])

\* "while id != 0" of the container-2 trailer
RECURSIVE blocks_loop(_)
blocks_loop(r) ==
    Let(uint32(r, FALSE), LAMBDA id :
    IF id.err # "" THEN [reader |-> id.reader, err |-> id.err]
    ELSE IF id.val = 0 THEN [reader |-> id.reader, err |-> ""]
    ELSE
    Let(uint32(id.reader, FALSE), LAMBDA size :
    IF size.err # "" THEN [reader |-> size.reader, err |-> size.err]
    ELSE blocks_loop(skip(size.reader, size.val))))

\* as checksum, with the first field read like the second
checksum_lenient(self, r) ==
    IF self.container_version = Some(1)
    THEN [reader |-> uint16(uint16(r, FALSE).reader, FALSE).reader, err |-> ""]
    ELSE [reader |-> r, err |-> ""]

\* as checksum, what the second field raises raised
checksum_strict(self, r) ==
    IF self.container_version = Some(1)
    THEN Let(uint16(r, FALSE), LAMBDA first :
         IF first.err # "" THEN [reader |-> first.reader, err |-> first.err]
         ELSE Let(uint16(first.reader, FALSE), LAMBDA second :
              [reader |-> second.reader, err |-> second.err]))
    ELSE [reader |-> r, err |-> ""]

\* "if self.container_version == 1: ..." after the loop: the second
\* uint16 may raise, and what it raises is dropped
checksum(self, r) ==
    IF self.container_version = Some(1)
    THEN Let(uint16(r, FALSE), LAMBDA first :
         IF first.err # "" THEN [reader |-> first.reader, err |-> first.err]
         ELSE [reader |-> uint16(first.reader, FALSE).reader, err |-> ""])
    ELSE [reader |-> r, err |-> ""]

\* what read_trailer hands back
Trailed(self, r, err) == [self |-> self, reader |-> r, err |-> err]

\* as read_trailer, with the fingerprint stored when the hash is detached
read_trailer_early(self, r) ==
    Let(checksum(self, r), LAMBDA sum :
    IF sum.err # "" THEN Trailed(self, sum.reader, sum.err)
    ELSE
    Let(detach_hash(sum.reader), LAMBDA detached :
    Let([self EXCEPT !.md5sum = Some(md5_digest(detached.hashed))],
        LAMBDA summed :
    Let(IF self.container_version = Some(2) THEN blocks_loop(detached)
        ELSE [reader |-> detached, err |-> ""], LAMBDA blocks :
    IF blocks.err # "" THEN Trailed(summed, blocks.reader, blocks.err)
    ELSE
    Let(uint8(blocks.reader), LAMBDA last :
    IF last.err = "" THEN Trailed(summed, last.reader, "Junk at the end of file.")
    ELSE Trailed(summed, last.reader, ""))))))

\* from the end of the record loop to the return
read_trailer(self, r) ==
    Let(checksum(self, r), LAMBDA sum :
    IF sum.err # "" THEN Trailed(self, sum.reader, sum.err)
    ELSE
    Let(detach_hash(sum.reader), LAMBDA detached :
    Let(IF self.container_version = Some(2) THEN blocks_loop(detached)
        ELSE [reader |-> detached, err |-> ""], LAMBDA blocks :
    IF blocks.err # "" THEN Trailed(self, blocks.reader, blocks.err)
    ELSE
    Let(uint8(blocks.reader), LAMBDA last :
    IF last.err = "" THEN Trailed(self, last.reader, "Junk at the end of file.")
    ELSE Trailed([self EXCEPT !.md5sum = Some(md5_digest(last.reader.hashed))],
                 last.reader, "")))))

(***************************************************************************)
(* The byte strings decodestr is run on: an optional U+00DE marker, then   *)
(* up to MaxFill copies of the extended code 0x00 (8 stack slots each),    *)
(* then up to MaxTail tokens.                                              *)
(***************************************************************************)
MaxFill == 8

MaxTail == 2

Tokens ==
    { <<\h7B>>,                    \* {COMMA}, 4 slots
      <<\h86>>,                    \* rotate_words
      <<\h9A, \h03, \h00, \h00>>,  \* push_word with its 2 inline bytes
      <<\h88>>,                    \* {BLUE}, no stack parameter
      <<\h85>>,                    \* unnamed, 2 slots
      <<\h9A, \h1B>>,              \* {CARGO_LONG}, 2 + 2 slots
      <<\h9A>>,                    \* the extended prefix alone
      <<\h41>>,                    \* the letter A
      <<\hEE, \h81, \hBB>> }       \* UTF-8 of U+E07B

RECURSIVE Flatten(_)
Flatten(seqs) == IF seqs = <<>> THEN <<>> ELSE Head(seqs) \o Flatten(Tail(seqs))

Fill(n) == Flatten([i \in 1..n |-> <<\h9A, \h00>>])

DecodeInputs ==
    { marker \o Fill(n) \o Flatten(tail) :
        marker \in {<<>>, <<\hC3, \h9E>>},
        n \in 0..MaxFill,
        tail \in UNION {[1..k -> Tokens] : k \in 0..MaxTail} }

\* BinaryReader is not running in this specification.
IdleReader ==
    /\ reader = BinaryReader(<<>>, FALSE)
    /\ ret = NoCall

EmptyDict == [key \in {} |-> 0]

\* decodestr lines 196-201, up to the loop.
InitDecode ==
    /\ IdleReader
    /\ IdleRead
    /\ IdleProcess
    /\ IdleLoop
    /\ b \in DecodeInputs
    /\ is_unicode = (getutf8(b, 0) = [size |-> 2, c |-> \h00DE])
    /\ pos = IF is_unicode THEN 2 ELSE 0
    /\ result = ""
    /\ stack = TextRefStack
    /\ dpc = "loop"
    /\ derr = ""
    /\ stack_types = EmptyDict
    /\ log = <<>>

Iterate ==
    /\ dpc = "loop"
    /\ pos < Len(b)
    /\ LET it == decode_iter(b, pos, is_unicode, result, stack)
       IN  /\ pos' = it.pos
           /\ result' = it.result
           /\ stack' = it.stack
           /\ derr' = it.err
           /\ dpc' = IF it.err # "" THEN "raised" ELSE "loop"
           /\ log' = log \o it.dispatched
    /\ UNCHANGED <<b, is_unicode, stack_types, readerVars, readVars, processVars, loopVars>>

Return ==
    /\ dpc = "loop"
    /\ ~(pos < Len(b))
    /\ dpc' = "returned"
    /\ stack_types' = get_stack_types(stack)
    /\ UNCHANGED <<b, pos, is_unicode, result, stack, derr, log, readerVars, readVars, processVars, loopVars>>

NextDecode == Iterate \/ Return

SpecDecode == InitDecode /\ [][NextDecode]_vars

(***************************************************************************)
(* decodestr as one call, and process_string.  The map raw is a dict in    *)
(* insertion order: a sequence of entries with distinct lang_id.  An       *)
(* exception of decodestr leaves process_string as it was raised.          *)
(***************************************************************************)
RECURSIVE decodestr_loop(_, _, _, _, _)
decodestr_loop(bytes, p, uni, res, st) ==
    IF ~(p < Len(bytes))
    THEN [result |-> res, stack_types |-> get_stack_types(st), err |-> ""]
    ELSE Let(decode_iter(bytes, p, uni, res, st), LAMBDA it :
         IF it.err # ""
         THEN [result |-> "", stack_types |-> EmptyDict, err |-> it.err]
         ELSE decodestr_loop(bytes, it.pos, uni, it.result, it.stack))

decodestr(bytes) ==
    Let(getutf8(bytes, 0) = [size |-> 2, c |-> \h00DE], LAMBDA uni :
    decodestr_loop(bytes, IF uni THEN 2 ELSE 0, uni, "", TextRefStack))

\* key in raw
Contains(raw, key) == \E i \in DOMAIN raw : raw[i].lang_id = key

\* raw[key]
Item(raw, key) == raw[CHOOSE i \in DOMAIN raw : raw[i].lang_id = key].raw_text

\* as items_loop, every entry given the text of the base language
RECURSIVE items_loop_base(_, _, _)
items_loop_base(raw, i, res) ==
    IF i > Len(raw) THEN [val |-> Some(res), err |-> ""]
    ELSE Let(decodestr(raw[i].raw_text), LAMBDA text :
         IF text.err # "" THEN [val |-> None, err |-> text.err]
         ELSE items_loop_base(raw, i + 1, Put(res, raw[i].lang_id, res[\h7F])))

\* for lang_id, raw_text in raw.items(), from the i-th entry on
RECURSIVE items_loop(_, _, _)
items_loop(raw, i, res) ==
    IF i > Len(raw) THEN [val |-> Some(res), err |-> ""]
    ELSE Let(decodestr(raw[i].raw_text), LAMBDA text :
         IF text.err # "" THEN [val |-> None, err |-> text.err]
         ELSE items_loop(raw, i + 1, Put(res, raw[i].lang_id, text.result)))

\* process_string from the decoding of the base text on
base_text(raw, key) ==
    Let(decodestr(Item(raw, key)), LAMBDA base :
    IF base.err # "" THEN [val |-> None, err |-> base.err]
    ELSE items_loop(raw, 1, (\h7F :> base.result)))

\* process_string taking the first entry for a missing base text
process_string_first(raw) ==
    IF raw = <<>> THEN [val |-> None, err |-> "Missing base language text"]
    ELSE base_text(raw, IF Contains(raw, \h7F) THEN \h7F ELSE raw[1].lang_id)

process_string(raw) ==
    IF ~Contains(raw, \h7F)
    THEN [val |-> None, err |-> "Missing base language text"]
    ELSE base_text(raw, \h7F)

\* dict without key
Del(dict, key) == [k \in DOMAIN dict \ {key} |-> dict[k]]

\* as adopt, the base text written over language 0x01
adopt_over(lang_string) ==
    IF \h7F \in DOMAIN lang_string
    THEN Put(Del(lang_string, \h7F), \h01, lang_string[\h7F])
    ELSE lang_string

\* "if 0x7F in lang_string: ..." of extract: the languages of one string
adopt(lang_string) ==
    IF \h7F \in DOMAIN lang_string
    THEN Let(Del(lang_string, \h7F), LAMBDA rest :
         IF \h01 \notin DOMAIN rest THEN Put(rest, \h01, lang_string[\h7F])
         ELSE IF \h00 \notin DOMAIN rest THEN Put(rest, \h00, lang_string[\h7F])
         ELSE rest)
    ELSE lang_string

(***************************************************************************)
(* The maps process_string is called with: up to MaxLangs entries in any   *)
(* order, each a tag of LangIds with a text of Texts.                      *)
(***************************************************************************)
MaxLangs == 3

LangIds == {\h00, \h01, \h02, \h7F}

Texts ==
    { <<\h41>>,                    \* the letter A
      <<\h7B>>,                    \* {COMMA}
      <<\h9A>>,                    \* the extended prefix alone: IndexError
      <<\h0D, \h41>>,              \* a carriage return, written {}, and A
      Fill(5),                     \* 40 of the 64 stack slots
      Fill(8) \o <<\h7B>> }        \* 68 slots: AssertionError

ProcessInputs ==
    { raw \in UNION { [1..n -> [lang_id : LangIds, raw_text : Texts]] :
                        n \in 0..MaxLangs } :
        \A i, j \in DOMAIN raw : raw[i].lang_id = raw[j].lang_id => i = j }

InitProcess ==
    /\ IdleReader
    /\ IdleDecode
    /\ IdleRead
    /\ IdleLoop
    /\ proc \in { [raw |-> raw, pc |-> "called", val |-> None, err |-> "",
                    languages |-> None] :
                    raw \in ProcessInputs }

ProcessString ==
    /\ proc.pc = "called"
    /\ \E r \in {process_string(proc.raw)} :
         proc' = [proc EXCEPT !.pc = IF r.err # "" THEN "raised" ELSE "returned",
                              !.val = r.val,
                              !.err = r.err]
    /\ UNCHANGED <<readerVars, decodeVars, readVars, loopVars>>

\* __main__.py, the loop of extract from "if 0x7F in lang_string" to the
\* languages the string is appended to
Adopt ==
    /\ proc.pc = "returned"
    /\ proc' = [proc EXCEPT !.pc = "appended",
                            !.languages = Some(adopt(proc.val[1]))]
    /\ UNCHANGED <<readerVars, decodeVars, readVars, loopVars>>

NextProcess == ProcessString \/ Adopt

SpecProcess == InitProcess /\ [][NextProcess]_vars

\* C11: process_string called with a map that has no entry under tag 0x7F,
\* whatever its other entries, raises the missing-base-text error and
\* returns no result.
C11_MissingBaseText ==
    (proc.pc # "called" /\ ~Contains(proc.raw, \h7F))
        => /\ proc.pc = "raised"
           /\ proc.err = "Missing base language text"
           /\ proc.val = None

\* A map with other entries and none under 0x7F was refused.
C11_Witness ==
    /\ proc.pc = "raised"
    /\ proc.raw # <<>>
    /\ ~Contains(proc.raw, \h7F)
    /\ \E i \in DOMAIN proc.raw : proc.raw[i].raw_text = <<\h41>>

\* The text each byte string of Texts is written as when it is decoded on
\* its own; None for the two that raise.
Normalized(raw_text) ==
    CASE raw_text = <<\h41>> -> Some("A")
      [] raw_text = <<\h7B>> -> Some("{COMMA}")
      [] raw_text = <<\h0D, \h41>> -> Some("{}A")
      [] raw_text = Fill(5) ->
             Some("{CURRENCY_LONG}{CURRENCY_LONG}{CURRENCY_LONG}"
                      \o "{CURRENCY_LONG}{CURRENCY_LONG}")
      [] OTHER -> None

\* C23: called with a map that has an entry under tag 0x7F, process_string
\* returns exactly when every text of the map decodes on its own, and the
\* map it returns has the tags of the input, each with the text its own
\* bytes decode to from a fresh stack, whatever the other entries are.
C23_Independent ==
    (proc.pc # "called" /\ Contains(proc.raw, \h7F)) =>
        /\ proc.pc # "raised" <=>
               \A i \in DOMAIN proc.raw : Normalized(proc.raw[i].raw_text) # None
        /\ proc.pc # "raised" =>
               /\ proc.val # None
               /\ DOMAIN proc.val[1] = {proc.raw[i].lang_id : i \in DOMAIN proc.raw}
               /\ \A i \in DOMAIN proc.raw :
                      proc.val[1][proc.raw[i].lang_id]
                          = Normalized(proc.raw[i].raw_text)[1]

\* Two languages each took 40 of the 64 stack slots beside the base text.
C23_Witness ==
    /\ proc.pc = "returned"
    /\ Len(proc.raw) = 3
    /\ Item(proc.raw, \h7F) = <<\h41>>
    /\ Item(proc.raw, \h00) = Fill(5)
    /\ Item(proc.raw, \h01) = Fill(5)
    /\ proc.val[1][\h7F] = "A"

\* the tags of the map process_string was called with
Tags == {proc.raw[i].lang_id : i \in DOMAIN proc.raw}

\* the language the base text is adopted as, if any
Adopted ==
    IF \h01 \notin Tags THEN {\h01}
    ELSE IF \h00 \notin Tags THEN {\h00}
    ELSE {}

\* C26: of the decoded texts of a string the serializer never emits tag
\* 0x7F; the base text is emitted as language 0x01 when the string has no
\* 0x01, else as 0x00 when it has no 0x00, else not at all; every other
\* tag of the string, 0x00 and 0x01 among them, is emitted with its own
\* text.
C26_FallbackChain ==
    proc.pc = "appended" =>
        LET out == proc.languages[1]
        IN  /\ \h7F \notin DOMAIN out
            /\ DOMAIN out = (Tags \ {\h7F}) \cup Adopted
            /\ \A t \in Tags \ {\h7F} : out[t] = Normalized(Item(proc.raw, t))[1]
            /\ \A t \in Adopted : out[t] = Normalized(Item(proc.raw, \h7F))[1]

\* A string with the languages 0x01 and 0x02 gave its base text to 0x00.
C26_Witness ==
    /\ proc.pc = "appended"
    /\ Tags = {\h01, \h02, \h7F}
    /\ Item(proc.raw, \h7F) = <<\h41>>
    /\ Item(proc.raw, \h01) = <<\h7B>>
    /\ proc.languages[1] =
           (\h00 :> "A") @@ (\h01 :> "{COMMA}")
               @@ (\h02 :> Normalized(Item(proc.raw, \h02))[1])

\* A string with the languages 0x00 and 0x01 dropped its base text.
C26_WitnessDropped ==
    /\ proc.pc = "appended"
    /\ Tags = {\h00, \h01, \h7F}
    /\ DOMAIN proc.languages[1] = {\h00, \h01}

(***************************************************************************)
(* Claims about decodestr and TextRefStack, under SpecDecode.              *)
(***************************************************************************)
RECURSIVE Sum(_)
Sum(sizes) == IF sizes = <<>> THEN 0 ELSE Head(sizes) + Sum(Tail(sizes))

Range(seq) == {seq[i] : i \in DOMAIN seq}

\* The slots held after the i-th logged control code ran.
HeldAfter(i) == IF i < Len(log) THEN log[i + 1].held ELSE stack.stack_index

\* The i-th logged control code raised.
Raised(i) == dpc = "raised" /\ i = Len(log)

IsStandard(cc) == cc.command_handler = "standard_command"

IsRotate(cc) == cc.command_handler = "rotate_words"

\* Some declared width exceeds the slots left when its turn comes.
RECURSIVE WidthExceeds(_, _)
WidthExceeds(sizes, have) ==
    /\ sizes # <<>>
    /\ \/ Head(sizes) > have
       \/ WidthExceeds(Tail(sizes), have - Head(sizes))

Underflows(e) ==
    \/ IsStandard(e.cc) /\ WidthExceeds(e.cc.stack_param_size, Len(e.held))
    \/ IsRotate(e.cc) /\ Len(e.held) < 8

\* C7: a Standard command whose declared width exceeds the slots held, or
\* RotateWords with fewer than 8 slots, makes decodestr raise: it is the
\* last code run, no result is returned, and every Standard command that
\* did not raise removed exactly the slots it declares.
C7_UnderflowRaises ==
    \A i \in DOMAIN log :
        /\ Underflows(log[i]) =>
              Raised(i) /\ derr = "AssertionError" /\ stack_types = EmptyDict
        /\ IsStandard(log[i].cc) /\ ~Raised(i) =>
              Len(HeldAfter(i)) =
                  Len(log[i].held) - Sum(log[i].cc.stack_param_size)

\* A width-4 command raised on a stack holding 2 slots.
C7_Witness ==
    /\ dpc = "raised"
    /\ log # <<>>
    /\ IsStandard(log[Len(log)].cc)
    /\ log[Len(log)].cc.stack_param_size = <<4>>
    /\ Len(log[Len(log)].held) = 2

\* C28: decodestr reads no byte at or past the end of its input: a string
\* that ends right after the extended-table prefix or inside the inline
\* parameters of a code is decoded to a result, and a raise of decodestr
\* is a ParamStack underflow of the last code run.
C28_OnlyUnderflowFails ==
    dpc = "raised" =>
        /\ derr = "AssertionError"
        /\ log # <<>>
        /\ Underflows(log[Len(log)])

\* The slots the i-th logged code removed, if it is a Standard command that
\* did not raise: the front Sum(widths) slots held when it ran.
RemovedBy(i) ==
    IF IsStandard(log[i].cc) /\ ~Raised(i)
    THEN Range(SubSeq(log[i].held, 1, Sum(log[i].cc.stack_param_size)))
    ELSE {}

\* C8: the keys of the returned dict are exactly the original offsets
\* (0..63) of the slots Standard commands removed, each mapped to the name
\* of the command that removed it; no key is a sentinel or a slot still
\* held.  (A removed slot must be a key when its command has a name.)
C8_KeysAreRemovedSlots ==
    dpc = "returned" =>
        /\ \A key \in DOMAIN stack_types :
              /\ key \in 0..(StackSlots - 1)
              /\ key \notin Range(stack.stack_index)
              /\ \E i \in DOMAIN log :
                    /\ key \in RemovedBy(i)
                    /\ stack_types[key][1].base_name = log[i].cc.base_name
        /\ \A i \in DOMAIN log :
              log[i].cc.base_name # "" =>
                  \A slot \in RemovedBy(i) :
                      slot >= 0 => slot \in DOMAIN stack_types

Rotated(index) == rotate_words([stack_index |-> index, commands |-> <<>>],
                               DefaultControlCode).stack.stack_index

\* What C9 says of one application to index, and of four.
RotateLaw(index) ==
    LET once == Rotated(index)
    IN  /\ Len(once) = Len(index)
        /\ once[1] = index[7]
        /\ once[2] = index[8]
        /\ \A i \in 1..6 : once[i + 2] = index[i]
        /\ \A i \in 9..Len(index) : once[i] = index[i]
        /\ Rotated(Rotated(Rotated(once))) = index

\* C9: on a ParamStack of at least 8 slots RotateWords moves positions 6-7
\* to the front, shifts positions 0-5 back by two and leaves the rest and
\* the length alone; applied 4 times it restores the order.  Checked of
\* every stack decodestr holds, and of every RotateWords it ran.
C9_RotateWords ==
    /\ Len(stack.stack_index) >= 8 => RotateLaw(stack.stack_index)
    /\ \A i \in DOMAIN log :
          IsRotate(log[i].cc) /\ ~Raised(i) =>
              /\ Len(log[i].held) >= 8
              /\ RotateLaw(log[i].held)
              /\ HeldAfter(i) = Rotated(log[i].held)

\* RotateWords ran on a stack that a push_word and a command had changed.
C9_Witness ==
    /\ dpc = "loop"
    /\ Len(log) >= 2
    /\ IsRotate(log[Len(log)].cc)
    /\ log[Len(log)].held[1] = -1
    /\ stack.stack_index[1] # -1
    /\ stack.stack_index[3] = -1

ZeroFootprint == \A i \in DOMAIN log : log[i].cc.stack_param_size = <<>>

\* C10: when every control code of the string has an empty stack-parameter
\* width list, decodestr returns an empty parameter-offset dict.
C10_ZeroFootprintEmpty ==
    dpc = "returned" /\ ZeroFootprint => stack_types = EmptyDict

\* A string of a named code with inline bytes and a named code without.
C10_Witness ==
    /\ dpc = "returned"
    /\ ZeroFootprint
    /\ Len(stack.commands) >= 1
    /\ \E i \in DOMAIN log : log[i].cc.inline_param_size = 2
                             /\ log[i].cc.base_name # ""
    /\ \E i \in DOMAIN log : log[i].cc.base_name = "{BLUE}"

(***************************************************************************)
(* The files NewGRF.read is run on.  A file is a container header, the     *)
(* record of sprite 0, one pseudo sprite for read_pseudo, up to MaxSkipped *)
(* records after it, a closing record, the zero length and a   *)
(* trailer; and the empty file, and two files with a bad header.           *)
(***************************************************************************)
MaxSkipped == 2

uint16_bytes(v) == <<v % 256, v \div 256>>

\* a record as the record loop reads it: the length in the container's
\* width, the info byte, the bytes after it
Record(version, size, info, bytes) ==
    (IF version = 2 THEN to_bytes_little4(size) ELSE uint16_bytes(size))
        \o <<info>> \o bytes

Pseudo(version, payload) == Record(version, Len(payload), \hFF, payload)

\* a real sprite the container accepts
Real(version) ==
    IF version = 2 THEN Record(2, 1, \hFD, <<\h00>>)
    ELSE Record(1, 8, \h02, <<0, 0, 0, 0, 0, 0, 0>>)

\* a container-1 real sprite with one literal run; container 2 has no such
\* info byte
Packed(version) == Record(version, 9, \h00, <<0, 0, 0, 0, 0, 0, 0, 1, 0>>)

\* a record with an info byte neither container accepts at this length
Bad(version) == Record(version, 1, \h01, <<\h00>>)

\* Pseudo sprites: action 8 (version 8, id "ABCD", name "N", description
\* "D"), action 0x11 (1 sound), action 5 (MaxSkipped sprites), action 4
\* (TRAIN string 5 "T"), action 0 (plural form of language 0), action 0x14
\* without a node, action 0xB (error text "E").
A08 == <<\h08, \h08, \h41, \h42, \h43, \h44, \h4E, \h00, \h44, \h00>>

A11 == <<\h11, \h01, \h00>>

A05 == <<\h05, \h04, MaxSkipped>>

A04 == <<\h04, \h00, \h7F, \h01, \h05, \h54, \h00>>

A00 == <<\h00, \h08, \h01, \h01, \h00, \h15, \h02>>

A14 == <<\h14>>

A0B == <<\h0B, \h00, \h7F, \h00, \h45, \h00>>

Dispatched == {A08, A11, A05, A04, A00, A14, A0B}

\* every run of at most n records, each a pseudo sprite or a real sprite
RECURSIVE Runs(_, _)
Runs(records, n) ==
    IF n = 0 THEN {<<>>}
    ELSE {<<>>} \cup {rec \o rest : rec \in records, rest \in Runs(records, n - 1)}

Skipped(version) == Runs({Pseudo(version, A04), Real(version)}, MaxSkipped)

Closing(version) ==
    {<<>>, Pseudo(version, A08), Packed(version), Bad(version)}

Header(version, magic, compression) ==
    IF version = 2
    THEN <<\h00, \h00>> \o magic \o to_bytes_little4(\h40) \o <<compression>>
    ELSE <<>>

Terminator(version) == IF version = 2 THEN <<0, 0, 0, 0>> ELSE <<0, 0>>

Trailers(version) ==
    IF version = 2
    THEN {<<0, 0, 0, 0>>,
          <<1, 0, 0, 0, 2, 0, 0, 0, 9, 9, 0, 0, 0, 0>>,
          <<0, 0, 0, 0, 9>>}
    ELSE {<<1, 2, 3, 4>>, <<1, 2, 3>>, <<1, 2, 3, 4, 5>>}

Files(version) ==
    {Header(version, MAGIC, 0) \o Pseudo(version, <<2, 0, 0, 0>>)
        \o Pseudo(version, d) \o s \o c \o Terminator(version) \o t :
        d \in Dispatched, s \in Skipped(version), c \in Closing(version),
        t \in Trailers(version)}

BadMagic == [MAGIC EXCEPT ![4] = \h81]

(***************************************************************************)
(* Scripts: a container header, the record of sprite 0, a run of at most   *)
(* MaxScript records, the zero length and a trailer.  The error scripts    *)
(* run Action 0x0B records (language tag, text), Action 0x07 and real      *)
(* sprites in every order.                                                 *)
(***************************************************************************)
MaxScript == 4

Script(version, run) ==
    Header(version, MAGIC, 0) \o Pseudo(version, <<2, 0, 0, 0>>) \o run
        \o Terminator(version)
        \o (IF version = 2 THEN <<0, 0, 0, 0>> ELSE <<1, 2, 3, 4>>)

\* action 0xB: severity, language tag, message id, the text and its zero
B(lang_id, text) == <<\h0B, \h00, lang_id, \h00>> \o text \o <<\h00>>

A07 == <<\h07>>

ErrorRecords(version) ==
    { Pseudo(version, payload) :
        payload \in {B(\h02, <<\h46>>), B(\h7F, <<\h45>>), B(\h02, <<>>), A07} }
        \cup {Real(version)}

ErrorScripts ==
    { Script(1, run) : run \in Runs(ErrorRecords(1), MaxScript) }

(***************************************************************************)
(* The text scripts: the Action 0x04 record A04 (TRAIN string 5, tag 0x7F) *)
(* and one more Action 0x04 record: a feature, a language byte, up to      *)
(* MaxIds ids from a first id of either width, and a text for each id or   *)
(* for all but the last.                                                   *)
(***************************************************************************)
MaxIds == 2

\* the first text is "T", the second "U", ...
Strings(n) == Flatten([k \in 1..n |-> <<\h53 + k, \h00>>])

FirstIds(lang_id) ==
    IF lang_id >= \h80
    THEN { uint16_bytes(f) :
             f \in {\hC4FF, \hC5FF, \hC8FF, \hC9FF, \hD000, \hFFFF} }
    ELSE { <<\h05>>, <<\hFF, \h00, \h01>> }

TextPayloads ==
    UNION { { <<\h04, feat, lang_id, n>> \o first_id \o Strings(texts) :
                feat \in {\h00, \h30}, first_id \in FirstIds(lang_id),
                texts \in {n, n - 1} \cap (0..MaxIds) } :
            lang_id \in {\h02, \h7E, \h82, \hFF}, n \in 0..MaxIds }

TextScripts ==
    { Script(1, Pseudo(1, A04) \o Pseudo(1, payload)) : payload \in TextPayloads }

(***************************************************************************)
(* The property scripts: the Action 0x00 record A00 (plural form 2 of      *)
(* language 0) and one more Action 0x00 record, written from a             *)
(* description: a feature, n <= MaxIds ids from a first id of either       *)
(* width, and at most MaxProps property tags, each with the bytes the tag  *)
(* takes for n ids.                                                        *)
(***************************************************************************)
MaxProps == 2

\* the plural form written for the i-th id (i from 0)
FormOf(i) == i + 3

\* The (index, name) pairs written for the i-th id: two names under one
\* index and one under another; none; one.
NamesOf(i) ==
    IF i = 0
    THEN <<[index |-> 1, raw |-> <<\h6D>>, text |-> "m"],
           [index |-> 2, raw |-> <<\h66>>, text |-> "f"],
           [index |-> 1, raw |-> <<\h78>>, text |-> "x"]>>
    ELSE IF i = 1 THEN <<>>
    ELSE <<[index |-> 3, raw |-> <<\h6E>>, text |-> "n"]>>

EncodeNames(pairs) ==
    Flatten([j \in DOMAIN pairs |-> <<pairs[j].index>> \o pairs[j].raw \o <<\h00>>])
        \o <<\h00>>

\* a property: its tag and what follows it for n ids
EncodeProp(tag, n) ==
    <<tag>> \o
    (CASE tag = \h15 -> [i \in 1..n |-> FormOf(i - 1)]
       [] tag \in {\h13, \h14} -> Flatten([i \in 1..n |-> EncodeNames(NamesOf(i - 1))])
       [] tag = \h08 -> [i \in 1..n |-> \h00]
       [] OTHER -> <<>>)

EncodeGlobal(d) ==
    <<\h00, d.feat, Len(d.tags), d.n>>
        \o (IF d.n = 0 THEN <<>>
            ELSE IF d.first < \hFF THEN <<d.first>>
            ELSE <<\hFF>> \o uint16_bytes(d.first))
        \o Flatten([j \in DOMAIN d.tags |-> EncodeProp(d.tags[j], d.n)])

\* plural, gender, case, a skipped property, a tag that is not recognized
PropertyTags == {\h15, \h13, \h14, \h08, \h99}

FirstGlobal == {\h00, \h100}

GlobalRecords ==
    [feat : {\h08, \h00}, n : 0..MaxIds, first : FirstGlobal,
     tags : UNION { [1..k -> PropertyTags] : k \in 0..MaxProps }]

PropertyScripts ==
    { Script(1, Pseudo(1, A00) \o Pseudo(1, EncodeGlobal(d))) :
        d \in GlobalRecords }

(***************************************************************************)
(* The tree scripts: an Action 0x14 record and a record after it.  A node  *)
(* is a type byte, a 4-byte name and what the type takes; the nodes of a   *)
(* level end with a zero byte.                                             *)
(***************************************************************************)
TextNode(name, grflangid, text) == <<\h54>> \o name \o <<grflangid>> \o text \o <<\h00>>

BinaryNode(name, data) == <<\h42>> \o name \o uint16_bytes(Len(data)) \o data

ContainerNode(name, nodes) == <<\h43>> \o name \o nodes \o <<\h00>>

\* a node of a type read_a14 does not know
OtherNode(type_id) == <<type_id, \h58, \h58, \h58, \h58>>

INFO == Slice(INFONAME, 0, 4)

URL_ == SliceFrom(INFOURL_, 4)

PARA == SliceFrom(INFOPARA, 4)

FIDM == Slice(FIDMNAME, 0, 4)

FTID == SliceFrom(FIDMFTID, 4)

\* the name "N" and the URL "U" of the GRF, in the base language
NameLeaf == TextNode(NAME, \h7F, <<\h4E>>)

UrlLeaf == TextNode(URL_, \h7F, <<\h55>>)

\* A payload with a node of an unknown type at a depth of 0, 1 or 2
\* containers, behind the name leaf or not, and URL leaves after it at
\* every level.
BadTree(d) ==
    LET bad == OtherNode(d.type_id) \o UrlLeaf
        before == IF d.named THEN NameLeaf ELSE <<>>
    IN  <<\h14>> \o
        (IF d.depth = 0
         THEN ContainerNode(INFO, before) \o bad
         ELSE IF d.depth = 1
         THEN ContainerNode(INFO, before \o bad)
         ELSE ContainerNode(INFO, before \o ContainerNode(PARA, bad) \o UrlLeaf))
        \o ContainerNode(INFO, UrlLeaf) \o <<\h00>>

BadTrees == [depth : 0..2, named : BOOLEAN, type_id : {\h58, \h01, \h63, \hFF}]

BadTreeScripts ==
    { Script(1, Pseudo(1, BadTree(d)) \o Pseudo(1, A04)) : d \in BadTrees }

\* "road_stops"
ROAD_STOPS == <<\h72, \h6F, \h61, \h64, \h5F, \h73, \h74, \h6F, \h70, \h73>>

\* The mapping scripts: an Action 0x14 record with the leaves FIDM/NAME
\* (the sentinel or another name) and FIDM/FTID (the feature byte v), then
\* an Action 0x04 or Action 0x00 record of feature byte v for id 5.
MappingTree(m) ==
    <<\h14>> \o ContainerNode(FIDM,
                    TextNode(NAME, \h7F, IF m.armed THEN ROAD_STOPS
                                         ELSE Slice(ROAD_STOPS, 0, 4))
                        \o BinaryNode(FTID, <<m.v>>))
        \o <<\h00>>

MappingUse(m) ==
    IF m.action = \h04 THEN <<\h04, m.v, \h7F, \h01, \h05, \h54, \h00>>
    ELSE <<\h00, m.v, \h01, \h01, \h05, \h15, \h02>>

Mappings == [armed : BOOLEAN, v : {\h30, \h08}, action : {\h04, \h00}]

MappingScript(m) ==
    Script(1, Pseudo(1, MappingTree(m)) \o Pseudo(1, MappingUse(m)))

MappingScripts == { MappingScript(m) : m \in Mappings }

(***************************************************************************)
(* The sprite scripts: a container-1 real sprite and the record A04 after  *)
(* it.  The sprite is 7 header bytes and at most MaxChunks chunks; a chunk *)
(* is a control byte and the input bytes it takes.  The declared size is   *)
(* 8 more than the chunks' lengths add up to, or one off either way; a     *)
(* raw sprite declares its bytes.  And sprites of a size below 8.          *)
(***************************************************************************)
MaxChunks == 2

\* "i = 32 - (i >> 3)", "if i == 0: i = 0x80"
ChunkLength(c) ==
    IF c >= \h80 THEN 32 - Shr(c, 3) ELSE IF c = 0 THEN \h80 ELSE c

\* "reader.skip(1)", "reader.skip(i)"
ChunkSkip(c) == IF c >= \h80 THEN 1 ELSE ChunkLength(c)

Chunk(c) == <<c>> \o [k \in 1..ChunkSkip(c) |-> \hAA]

Controls == {\h01, \h02, \h00, \h80, \h9F, \hF8}

Sprite(d) ==
    LET stream == Flatten([k \in DOMAIN d.controls |-> Chunk(d.controls[k])])
        length == Sum([k \in DOMAIN d.controls |-> ChunkLength(d.controls[k])])
    IN  Record(1, 8 + (IF d.raw THEN Len(stream) ELSE length + d.off),
               IF d.raw THEN \h02 ELSE \h00,
               <<0, 0, 0, 0, 0, 0, 0>> \o stream)

Sprites ==
    { d \in [controls : UNION { [1..k -> Controls] : k \in 0..MaxChunks },
             off : {-1, 0, 1}, raw : BOOLEAN] :
        /\ d.raw => d.off = 0
        /\ d.controls = <<>> => d.off >= 0 }

SpriteScripts ==
    { Script(1, Sprite(d) \o Pseudo(1, A04)) : d \in Sprites }
        \cup { Script(1, Record(1, size, info, [k \in 1..size |-> \h00])) :
                 size \in {1, 7}, info \in {\h00, \h02} }

\* The trailer files: a container-1 file of the record of sprite 0, the
\* zero length and up to MaxTrailer bytes after it.
MaxTrailer == 6

TrailerFiles ==
    { Pseudo(1, <<2, 0, 0, 0>>) \o Terminator(1) \o [k \in 1..n |-> k] :
        n \in 0..MaxTrailer }

\* The attach scripts: at most MaxAttach records of one action (0x04 for
\* string 5 of feature 0, 0x0B, or 0x14 with the leaf INFO/NAME), each
\* attaching one text under one tag.  A text is written with the name it
\* gives under tag 0x7E; one text is not ASCII.
MaxAttach == 2

AttachTexts ==
    { [raw |-> <<\h4B>>, name |-> "K", ascii |-> TRUE],
      [raw |-> <<\h4C, \h4D>>, name |-> "LM", ascii |-> TRUE],
      [raw |-> <<\h4B, \hC3>>, name |-> "", ascii |-> FALSE] }

AttachTags == {\h7E, \h02, \h7D}

Attach(action, tag, raw) ==
    IF action = \h04 THEN <<\h04, \h00, tag, \h01, \h05>> \o raw \o <<\h00>>
    ELSE IF action = \h0B THEN B(tag, raw)
    ELSE <<\h14>> \o ContainerNode(INFO, TextNode(NAME, tag, raw)) \o <<\h00>>

AttachScripts ==
    UNION { { Script(1, run) :
                run \in Runs({ Pseudo(1, Attach(action, tag, text.raw)) :
                                 tag \in AttachTags, text \in AttachTexts },
                             MaxAttach) } :
            action \in {\h04, \h0B, \h14} }

\* The set scripts: one Action 0x01 record written from a description: the
\* feature byte 0, the set-count byte n and at most MaxExt extended-byte
\* values after it.
MaxExt == 3

EncodeSets(d) ==
    <<\h01, \h00, d.n>> \o Flatten([j \in DOMAIN d.exts |-> ExtEncode(d.exts[j])])

SetRecords ==
    [n : {\h00, \h02},
     exts : UNION { [1..k -> {\h00, \h02, \h03, \h100}] : k \in 0..MaxExt }]

SetScripts == { Script(1, Pseudo(1, EncodeSets(d))) : d \in SetRecords }

\* The first-record files: the first record a pseudo sprite of every
\* dispatched action or a real sprite, then the record A04.
FirstFiles ==
    { Header(version, MAGIC, 0) \o first \o Pseudo(version, A04)
        \o Terminator(version)
        \o (IF version = 2 THEN <<0, 0, 0, 0>> ELSE <<1, 2, 3, 4>>) :
        version \in {1, 2},
        first \in UNION { { Pseudo(v, d) : d \in Dispatched } \cup {Real(v)} :
                            v \in {1, 2} } }

\* The block files: a container-2 file of the record of sprite 0, the zero
\* length, at most MaxBlocks trailer blocks (tag 1, a declared length and
\* as many bytes as declared or fewer) and an end: nothing, the zero tag,
\* the zero tag and one more byte, three bytes of a zero tag.
MaxBlocks == 2

Block(size, have) ==
    to_bytes_little4(1) \o to_bytes_little4(size) \o [k \in 1..have |-> 9]

Blocks == {Block(0, 0), Block(2, 2), Block(2, 1), Block(5, 5)}

BlockFiles ==
    { Header(2, MAGIC, 0) \o Pseudo(2, <<2, 0, 0, 0>>) \o Terminator(2)
        \o run \o end :
        run \in Runs(Blocks, MaxBlocks),
        end \in {<<>>, <<0, 0, 0, 0>>, <<0, 0, 0, 0, 9>>, <<0, 0, 0>>} }

\* the files whose prefixes are read as well
ContainerFiles == Files(1) \cup Files(2)

ReadInputs ==
    ContainerFiles \cup ErrorScripts \cup TextScripts
        \cup PropertyScripts \cup BadTreeScripts \cup MappingScripts
        \cup SpriteScripts \cup TrailerFiles \cup BlockFiles
        \cup AttachScripts \cup SetScripts \cup FirstFiles
        \cup {<<>>,
              Header(2, BadMagic, 0) \o Terminator(2) \o <<0, 0, 0, 0>>,
              Header(2, MAGIC, 1) \o Terminator(2) \o <<0, 0, 0, 0>>,
              Header(2, MAGIC, 0) \o Terminator(2) \o <<0, 0, 0, 0>>}

(***************************************************************************)
(* NewGRF().read(fp) as a state machine: the header, the record loop one   *)
(* record at a time, the trailer.  Truncate starts over with a fresh       *)
(* instance on a proper prefix of a file of Files that was accepted.       *)
(***************************************************************************)
NoHistory == [events |-> <<>>, err |-> "", trailer_at |-> 0, accepted |-> None]

\* the event of a record with the record's sprite index, its declared
\* size, where its info byte is, and the bytes after it as the file holds
\* them
Logged(event, fr, r) ==
    IF event = None THEN <<>>
    ELSE <<[info |-> event[1].info, kind |-> event[1].kind,
            before |-> event[1].before, after |-> event[1].after,
            err |-> event[1].err, sprite_index |-> fr.sprite_index,
            size |-> fr.size, at |-> r.pos,
            bytes |-> Slice(r.file, r.pos + 1, r.pos + 1 + fr.size)]>>

Call(file) ==
    /\ reader = BinaryReader(file, TRUE)
    /\ grf = NewGRF
    /\ frame = <<>>
    /\ pc = "header"

InitRead ==
    /\ \E file \in ReadInputs : Call(file)
    /\ hist = NoHistory
    /\ ret = NoCall
    /\ IdleDecode
    /\ IdleProcess
    /\ IdleLoop

ReadHeader ==
    /\ pc = "header"
    /\ \E h \in {read_header(grf, reader)} :
           /\ grf' = h.self
           /\ reader' = h.reader
           /\ frame' = IF h.err = "" THEN Frame(h.size) ELSE frame
           /\ pc' = IF h.err # "" THEN "raised"
                    ELSE IF h.size = 0 THEN "trailer" ELSE "records"
           /\ hist' = [hist EXCEPT !.err = h.err]
    /\ UNCHANGED <<ret, decodeVars, processVars, loopVars>>

ReadRecord ==
    /\ pc = "records"
    /\ \E rec \in {read_record(grf, frame, reader)} :
           /\ grf' = rec.self
           /\ reader' = rec.reader
           /\ frame' = rec.frame
           /\ pc' = IF rec.err # "" THEN "raised"
                    ELSE IF rec.frame.size = 0 THEN "trailer" ELSE "records"
           /\ hist' = [hist EXCEPT !.err = rec.err,
                                   !.events = @ \o Logged(rec.event, frame, reader)]
    /\ UNCHANGED <<ret, decodeVars, processVars, loopVars>>

ReadTrailer ==
    /\ pc = "trailer"
    /\ \E tr \in {read_trailer(grf, reader)} :
           /\ grf' = tr.self
           /\ reader' = tr.reader
           /\ pc' = IF tr.err # "" THEN "raised" ELSE "returned"
           /\ hist' = [hist EXCEPT !.err = tr.err, !.trailer_at = reader.pos]
    /\ UNCHANGED <<frame, ret, decodeVars, processVars, loopVars>>

Truncate ==
    /\ pc = "returned"
    /\ hist.accepted = None
    /\ reader.file \in ContainerFiles
    /\ \E n \in 0..(Len(reader.file) - 1) :
           /\ reader' = BinaryReader(SubSeq(reader.file, 1, n), TRUE)
           /\ grf' = NewGRF
           /\ frame' = <<>>
           /\ pc' = "header"
    /\ hist' = [NoHistory EXCEPT !.accepted =
                   Some([file |-> reader.file, trailer_at |-> hist.trailer_at,
                         container_version |-> grf.container_version[1]])]
    /\ UNCHANGED <<ret, decodeVars, processVars, loopVars>>

NextRead == ReadHeader \/ ReadRecord \/ ReadTrailer \/ Truncate

SpecRead == InitRead /\ [][NextRead]_vars

(***************************************************************************)
(* Claims about NewGRF.read.                                               *)
(***************************************************************************)
\* the file of the call, and the accepted file it is a proper prefix of
File == reader.file

Ended == pc \in {"returned", "raised"}

\* C1: read raises on the empty input and on every proper prefix of an
\* input it accepts, except that a prefix of a container-1 input which
\* keeps everything up to the second 16-bit trailer field is accepted:
\* the prefix run returns exactly when the accepted file is container 1
\* and the prefix ends at or after the start of that field.
C1_PrefixFails ==
    /\ Ended /\ File = <<>> => pc = "raised"
    /\ Ended /\ hist.accepted # None =>
           (pc = "returned" <=>
               /\ hist.accepted[1].container_version = 1
               /\ Len(File) >= hist.accepted[1].trailer_at + 2)

\* a prefix that ends inside the third record has raised end-of-file
C1_Witness ==
    /\ pc = "raised"
    /\ hist.accepted # None
    /\ hist.err = EOF
    /\ Len(hist.events) = 3
    /\ Len(File) < hist.accepted[1].trailer_at

\* the fields C2 lists
Metadata(g) ==
    [strings |-> g.strings, plurals |-> g.plurals, genders |-> g.genders,
     cases |-> g.cases, grf_version |-> g.grf_version,
     unique_id |-> g.unique_id, version |-> g.version,
     min_compatible_version |-> g.min_compatible_version,
     container_version |-> g.container_version]

FailedAfterRecords == pc = "raised" /\ frame # <<>> /\ frame.sprite_index > 0

\* C2 as stated: when read raises after records were processed, every
\* metadata field is as it was before the call (a fresh instance here).
C2_NoPartialMetadata == FailedAfterRecords => Metadata(grf) = Metadata(NewGRF)

\* what g holds, g2 holds too: set fields stay set, keys stay present
Kept(g, g2) ==
    /\ \A f \in {"grf_version", "unique_id", "version",
                 "min_compatible_version", "container_version"} :
           g[f] # None => g2[f] = g[f]
    /\ \A f \in {"strings", "plurals", "genders", "cases"} :
           DOMAIN g[f] \subseteq DOMAIN g2[f]
    /\ \A key \in DOMAIN g.strings :
           DOMAIN g.strings[key].translations
               \subseteq DOMAIN g2.strings[key].translations

\* C2 amended: read writes the metadata in place and restores nothing.
\* The step that raises keeps every field and key written before it, so
\* after a failure the partial metadata is there to see; what tells a
\* failed call from a finished one is the fingerprint, which is unset
\* after a raise and set after a return.
C2_FailureKeepsMetadata ==
    [][/\ pc' = "raised" /\ pc # "raised" =>
              Kept(grf, grf') /\ grf'.md5sum = None
       /\ pc' = "returned" => Kept(grf, grf') /\ grf'.md5sum # None]_vars

\* a call that raised on its closing record, with the identity and the
\* strings of the records before it in place
C2_Witness ==
    /\ FailedAfterRecords
    /\ hist.err = "Unknown info byte."
    /\ grf.unique_id = Some(<<\h41, \h42, \h43, \h44>>)
    /\ STR_GRF_NAME \in DOMAIN grf.strings
    /\ grf.md5sum = None

\* C3: the skip budget is never negative; read_pseudo is called for a
\* pseudo sprite only when the budget is 0; and after it returns n, the
\* next n records, pseudo or real, are not handed to read_pseudo and take
\* the budget down by one each, and the first pseudo sprite after those n
\* is handed to read_pseudo.
C3_SkipBudget ==
    /\ frame # <<>> => frame.skip_sprites >= 0
    /\ \A i \in DOMAIN hist.events :
           LET e == hist.events[i]
               n == e.after
           IN  /\ e.before >= 0 /\ e.after >= 0
               /\ e.kind = "dispatched" => e.before = 0
               /\ e.kind = "dispatched" /\ e.err = "" =>
                      \A j \in (i + 1)..Len(hist.events) :
                          LET f == hist.events[j]
                          IN  IF j <= i + n
                              THEN /\ f.kind \in {"skipped", "real"}
                                   /\ f.before = n - (j - i - 1)
                                   /\ f.after = f.before - 1
                              ELSE (/\ f.info = \hFF
                                    /\ \A k \in (i + n + 1)..(j - 1) :
                                           hist.events[k].info # \hFF)
                                       => f.kind = "dispatched"

\* read_pseudo returned 2, a pseudo sprite and a real sprite were passed
\* over, and the pseudo sprite after them was handed to read_pseudo
C3_Witness ==
    /\ Len(hist.events) = 5
    /\ hist.events[2].kind = "dispatched" /\ hist.events[2].after = 2
    /\ hist.events[3].kind = "skipped"
    /\ hist.events[4].kind = "real"
    /\ hist.events[5].kind = "dispatched"

\* the fields of the header as the bytes of the file give them
FirstLength == File[1] + 256 * File[2]

HasMagic == Len(File) >= 10 /\ SubSeq(File, 3, 10) = MAGIC

\* the length field that was read last, taken as width bytes
LastLength(width) ==
    from_bytes_little(SubSeq(File, reader.pos - width + 1, reader.pos))

\* C4 as stated: after the header the version is 1 iff the first length is
\* nonzero, and 2 iff it is 0, the signature matches and the compression
\* selector is 0.
C4_ContainerDetection ==
    pc \notin {"idle", "header"} /\ Len(File) >= 2 =>
        /\ grf.container_version = Some(1) <=> FirstLength # 0
        /\ grf.container_version = Some(2) <=>
               /\ FirstLength = 0
               /\ HasMagic
               /\ Len(File) >= 15 /\ File[15] = 0

\* C4 amended: the version becomes 1 iff the first 16-bit length is
\* nonzero, and record lengths are then 16-bit; it becomes 2 iff that
\* length is 0 and the next 8 bytes are the signature, before the total
\* length and the compression selector are read, and record lengths are
\* then 32-bit; a zero first length with a wrong signature, or a nonzero
\* compression selector, raises; in every state after the header the
\* version is the one these bytes give, so it never changes.
C4_VersionFromSignature ==
    pc \notin {"idle", "header"} /\ Len(File) >= 2 =>
        /\ grf.container_version = Some(1) <=> FirstLength # 0
        /\ grf.container_version = Some(2) <=> FirstLength = 0 /\ HasMagic
        /\ FirstLength = 0 /\ ~HasMagic =>
               pc = "raised" /\ hist.err = "Neither container 1 nor 2."
        /\ FirstLength = 0 /\ HasMagic /\ Len(File) >= 15 /\ File[15] # 0 =>
               pc = "raised" /\ hist.err = "Unknown container 2 compression."
        /\ pc \in {"records", "trailer"} =>
               frame.size = LastLength(IF grf.container_version = Some(1)
                                       THEN 2 ELSE 4)

\* a file with the signature and compression selector 1: read raised and
\* the version is 2
C4_Witness ==
    /\ pc = "raised"
    /\ hist.err = "Unknown container 2 compression."
    /\ grf.container_version = Some(2)

(***************************************************************************)
(* Claims about read_pseudo, over the records read dispatched.  A step of  *)
(* ReadRecord appends the record's event to hist.events.                   *)
(***************************************************************************)
\* the i-th record was handed to read_pseudo with one of these action bytes
IsAction(events, i, actions) ==
    /\ events[i].kind = "dispatched"
    /\ events[i].bytes # <<>>
    /\ events[i].bytes[1] \in actions

\* as IsAction, and read_pseudo returned
Did(events, i, actions) == IsAction(events, i, actions) /\ events[i].err = ""

\* the bytes up to the first zero byte
RECURSIVE UpToZero(_)
UpToZero(bytes) ==
    IF bytes = <<>> \/ Head(bytes) = 0 THEN <<>>
    ELSE <<Head(bytes)>> \o UpToZero(Tail(bytes))

\* the language tag and the text of an Action 0x0B record
ErrorTag(e) == e.bytes[3]

ErrorText(e) == UpToZero(SliceFrom(e.bytes, 4))

\* the i-th record closes the accumulator
Closes(events, i) ==
    \/ Did(events, i, {\h07, \h09})
    \/ Did(events, i, {\h0B}) /\ ErrorTag(events[i]) = \h7F

\* the record that opened the accumulator the i-th record writes to: the
\* first Action 0x0B with no closing record from it to before the i-th
Opener(events, i) ==
    LET open == { j \in 1..i : /\ Did(events, j, {\h0B})
                               /\ \A k \in j..(i - 1) : ~Closes(events, k) }
    IN  CHOOSE j \in open : \A k \in open : j <= k

\* the string holds the text under the tag (tag 0x7E names the string)
Attached(gs, lang_id, text) ==
    IF lang_id = \h7E THEN gs.str_name = decode_ascii(text).val
    ELSE lang_id \in DOMAIN gs.translations /\ gs.translations[lang_id] = text

\* the strings other than key are what they were
OthersKept(before, after, key) ==
    \A k \in DOMAIN after \ {key} : k \in DOMAIN before /\ after[k] = before[k]

RecordStep == pc = "records" /\ Len(hist'.events) = Len(hist.events) + 1

\* C12: every dispatched Action 0x0B record attaches its non-empty text to
\* the one string STR_ERROR_<sprite index of the record that opened the
\* accumulator>, the opening record being the first Action 0x0B after the
\* last dispatched record with tag 0x7F or Action 0x07/0x09; such a record
\* leaves the accumulator closed.
C12_Accumulator ==
    [][RecordStep =>
        LET events == hist'.events
            i == Len(events)
        IN  /\ Did(events, i, {\h0B}) =>
                LET key == str_error(events[Opener(events, i)].sprite_index)
                IN  /\ key \in DOMAIN grf'.strings
                    /\ ErrorText(events[i]) # <<>> =>
                           Attached(grf'.strings[key], ErrorTag(events[i]),
                                    ErrorText(events[i]))
                    /\ OthersKept(grf.strings, grf'.strings, key)
                    /\ frame'.state.actionb_string =
                           IF ErrorTag(events[i]) = \h7F THEN None ELSE Some(key)
            /\ Closes(events, i) => frame'.state.actionb_string = None]_vars

\* Sprites 1 and 2 filled STR_ERROR_1, the second closing it with tag
\* 0x7F, and sprite 3 opened STR_ERROR_3.
C12_Witness ==
    /\ pc = "returned"
    /\ Len(hist.events) = 5
    /\ \A i \in 2..4 : Did(hist.events, i, {\h0B})
    /\ DOMAIN grf.strings = {"STR_ERROR_1", "STR_ERROR_3"}
    /\ DOMAIN grf.strings["STR_ERROR_1"].translations = {\h02, \h7F}
    /\ DOMAIN grf.strings["STR_ERROR_3"].translations = {\h02}

\* the bytes after the first zero byte
RECURSIVE AfterZero(_)
AfterZero(bytes) ==
    IF bytes = <<>> THEN <<>>
    ELSE IF Head(bytes) = 0 THEN Tail(bytes)
    ELSE AfterZero(Tail(bytes))

\* the k-th (from 0) zero-terminated string of bytes
RECURSIVE NthString(_, _)
NthString(bytes, k) ==
    IF k = 0 THEN UpToZero(bytes) ELSE NthString(AfterZero(bytes), k - 1)

\* An Action 0x04 record as the claim reads it: feature, language byte L,
\* id count n, first id f in the width L selects, then the strings.
TextFeature(e) == e.bytes[2]

TextLang(e) == e.bytes[3]

TextCount(e) == e.bytes[4]

TextFirst(e) ==
    IF TextLang(e) >= \h80 \/ e.bytes[5] = \hFF
    THEN e.bytes[IF TextLang(e) >= \h80 THEN 5 ELSE 6]
         + 256 * e.bytes[IF TextLang(e) >= \h80 THEN 6 ELSE 7]
    ELSE e.bytes[5]

TextStrings(e) ==
    SliceFrom(e.bytes, IF TextLang(e) >= \h80 THEN 6
                       ELSE IF e.bytes[5] = \hFF THEN 7 ELSE 5)

TextTag(e) == IF TextLang(e) >= \h80 THEN TextLang(e) - \h80 ELSE TextLang(e)

\* exactly four hexadecimal digits: those of the low 16 bits
FourHex(id) ==
    HexDigits[((id \div 4096) % 16) + 1] \o HexDigits[((id \div 256) % 16) + 1]
        \o HexDigits[((id \div 16) % 16) + 1] \o HexDigits[(id % 16) + 1]

\* four hexadecimal digits, and one more in front of them from 0x10000 on
WideHex(id) ==
    IF id < 65536 THEN FourHex(id)
    ELSE HexDigits[(id \div 65536) + 1] \o FourHex(id)

\* the key of id in the scheme the language byte selects
TextKey(e, id, Generic(_)) ==
    IF TextLang(e) < \h80
    THEN "STR_" \o Get(FEATURES, TextFeature(e), ToString(TextFeature(e)))
             \o "_" \o ToString(id)
    ELSE IF id \in \hC400..\hC4FF
    THEN "STR_STATION_CLASS_" \o ToString(id - \hC400) \o "_NAME"
    ELSE IF id \in \hC500..\hC5FF
    THEN "STR_STATION_" \o ToString(id - \hC500) \o "_NAME"
    ELSE IF id \in \hC900..\hC9FF
    THEN "STR_HOUSE_" \o ToString(id - \hC900) \o "_NAME"
    ELSE "STR_GENERIC_" \o Generic(id)

TextKeys(e, Generic(_)) ==
    { TextKey(e, TextFirst(e) + k, Generic) : k \in 0..(TextCount(e) - 1) }

\* what a returned Action 0x04 step did, the generic ids written by Generic
TextStep(Generic(_)) ==
    RecordStep =>
        LET events == hist'.events
            e == events[Len(events)]
        IN  Did(events, Len(events), {\h04}) =>
                /\ \A k \in 0..(TextCount(e) - 1) :
                       LET key == TextKey(e, TextFirst(e) + k, Generic)
                       IN  /\ key \in DOMAIN grf'.strings
                           /\ Attached(grf'.strings[key], TextTag(e),
                                       NthString(TextStrings(e), k))
                /\ \A key \in DOMAIN grf'.strings \ TextKeys(e, Generic) :
                       key \in DOMAIN grf.strings
                       /\ grf'.strings[key] = grf.strings[key]
                /\ frame'.skip_sprites = 0

\* C13 as stated: an Action 0x04 record attaches its k-th string to id
\* f + k under the tag L or L - 0x80, the key an extended one (station
\* class, station, house, or STR_GENERIC_ and four hex digits) when
\* L >= 0x80 and STR_<FEATURE>_<id> otherwise.
C13_TextKeys == [][TextStep(FourHex)]_vars

\* C13 amended: as stated, a generic id from 0x10000 on written with the
\* five hexadecimal digits it has.
C13_TextKeysWide == [][TextStep(WideHex)]_vars

\* After A04 named TRAIN string 5, a record with language byte 0x82, two
\* ids from 0xC4FF on and two strings attached "T" to the last station
\* class and "U" to the first station.
C13_Witness ==
    /\ pc = "returned"
    /\ Len(hist.events) = 3
    /\ Did(hist.events, 3, {\h04})
    /\ TextLang(hist.events[3]) = \h82 /\ TextFirst(hist.events[3]) = \hC4FF
    /\ DOMAIN grf.strings
           = {"STR_TRAIN_5", "STR_STATION_CLASS_255_NAME", "STR_STATION_0_NAME"}
    /\ grf.strings["STR_STATION_0_NAME"].translations = (\h02 :> <<\h55>>)

\* the names of pairs written under index gi, in input order
RECURSIVE NamesAt(_, _)
NamesAt(pairs, gi) ==
    IF pairs = <<>> THEN <<>>
    ELSE (IF Head(pairs).index = gi THEN <<Head(pairs).text>> ELSE <<>>)
             \o NamesAt(Tail(pairs), gi)

Indices(pairs) == {pairs[j].index : j \in DOMAIN pairs}

\* a gender or case table after the names of n ids from f were appended
Named(table, n, f) ==
    [id \in DOMAIN table \cup {f + i : i \in {k \in 0..(n - 1) : NamesOf(k) # <<>>}} |->
        LET old == IF id \in DOMAIN table THEN table[id] ELSE <<>>
            pairs == IF id \in f..(f + n - 1) THEN NamesOf(id - f) ELSE <<>>
        IN  [gi \in DOMAIN old \cup Indices(pairs) |->
                (IF gi \in DOMAIN old THEN old[gi] ELSE <<>>) \o NamesAt(pairs, gi)]]

\* the plurals after the forms of n ids from f were set
Formed(plurals, n, f) ==
    [id \in DOMAIN plurals \cup f..(f + n - 1) |->
        IF id \in f..(f + n - 1) THEN FormOf(id - f) ELSE plurals[id]]

\* the tables after the properties tags, in order up to the first tag that
\* is not recognized
RECURSIVE Effect(_, _, _, _)
Effect(self, tags, n, f) ==
    IF tags = <<>> THEN self
    ELSE CASE Head(tags) = \h15 ->
                Effect([self EXCEPT !.plurals = Formed(@, n, f)], Tail(tags), n, f)
           [] Head(tags) = \h13 ->
                Effect([self EXCEPT !.genders = Named(@, n, f)], Tail(tags), n, f)
           [] Head(tags) = \h14 ->
                Effect([self EXCEPT !.cases = Named(@, n, f)], Tail(tags), n, f)
           [] Head(tags) = \h08 -> Effect(self, Tail(tags), n, f)
           [] OTHER -> self

\* C14: an Action 0x00 record returns skip count 0 without error; for the
\* (mapped) feature GLOBAL and n > 0 ids from f its plural property sets
\* plurals[f + i] to the i-th byte, its gender and case properties append
\* each id's names under their index in input order, and the first
\* unrecognized tag ends the record; for another feature or n = 0 the
\* metadata is unchanged.
C14_GlobalProperties ==
    [][RecordStep =>
        LET events == hist'.events
            e == events[Len(events)]
        IN  (IsAction(events, Len(events), {\h00}) /\ Len(e.bytes) >= 4) =>
            \A first \in FirstGlobal, tags \in [1..e.bytes[3] -> PropertyTags] :
                LET d == [feat |-> e.bytes[2], n |-> e.bytes[4],
                          first |-> first, tags |-> tags]
                IN  EncodeGlobal(d) = e.bytes
                    => /\ e.err = ""
                       /\ frame'.skip_sprites = 0
                       /\ grf' = IF Get(grf.feature_mapping, d.feat, d.feat) = \h08
                                    /\ d.n > 0
                                 THEN Effect(grf, d.tags, d.n, d.first)
                                 ELSE grf]_vars

\* A record of two ids from 0x100 with the gender property and then the
\* plural property: two names under index 1 of the first id, no entry for
\* the second, both plural forms, after A00 set that of id 0.
C14_Witness ==
    /\ pc = "returned"
    /\ Len(hist.events) = 3
    /\ grf.genders = (\h100 :> ((1 :> <<"m", "x">>) @@ (2 :> <<"f">>)))
    /\ grf.plurals = (0 :> 2) @@ (\h100 :> 3) @@ (\h101 :> 4)
    /\ grf.cases = EmptyTable

\* C15: an Action 0x14 record whose walk meets a node of a type other than
\* 0, 'C', 'B', 'T', at any depth, ends there: no node after it is read at
\* any level, read_pseudo returns skip count 0 without an exception, and
\* read goes on to the next record and to the end of the file.
C15_BadNodeAborts ==
    /\ [][RecordStep =>
            LET events == hist'.events
                e == events[Len(events)]
            IN  \A d \in BadTrees :
                    (IsAction(events, Len(events), {\h14}) /\ BadTree(d) = e.bytes)
                        => /\ e.err = ""
                           /\ frame'.skip_sprites = 0
                           /\ pc' = "records"
                           /\ grf'.strings =
                                  IF d.named
                                  THEN Put(grf.strings, STR_GRF_NAME,
                                           [GRFString EXCEPT !.translations =
                                                (\h7F :> <<\h4E>>)])
                                  ELSE grf.strings
                           /\ [grf' EXCEPT !.strings = grf.strings] = grf]_vars
    /\ [](\A d \in BadTrees :
            (Ended /\ File = Script(1, Pseudo(1, BadTree(d)) \o Pseudo(1, A04)))
                => /\ pc = "returned"
                   /\ Len(hist.events) = 3
                   /\ Did(hist.events, 3, {\h04})
                   /\ "STR_TRAIN_5" \in DOMAIN grf.strings)

\* The unknown node was two containers deep behind the name leaf: the name
\* was kept, no URL was read, and the Action 0x04 record after it was
\* dispatched.
C15_Witness ==
    /\ pc = "returned"
    /\ File = Script(1, Pseudo(1, BadTree([depth |-> 2, named |-> TRUE,
                                           type_id |-> \h58]))
                        \o Pseudo(1, A04))
    /\ DOMAIN grf.strings = {STR_GRF_NAME, "STR_TRAIN_5"}

\* C16: after an Action 0x14 record with a FIDM/NAME leaf of text
\* "road_stops" and then a FIDM/FTID leaf of first byte v, a later Action
\* 0x04 or 0x00 record with feature byte v is processed as feature 0x14
\* (the key of id 5 is STR_ROAD_STOP_5, the properties of feature byte 8
\* are no longer GLOBAL ones); the commit clears the pending entry, and a
\* FIDM/FTID leaf with no pending entry changes no mapping.
C16_FeatureMapping ==
    \A m \in Mappings :
        (Ended /\ File = MappingScript(m))
            => /\ pc = "returned"
               /\ grf.next_feature_map = None
               /\ grf.feature_mapping =
                      IF m.armed THEN (m.v :> \h14) ELSE [key \in {} |-> 0]
               /\ (m.armed /\ m.action = \h04)
                      => DOMAIN grf.strings = {"STR_ROAD_STOP_5"}
               /\ (m.armed /\ m.action = \h00) => DOMAIN grf.plurals = {}

\* the bytes of the file through the terminating zero record length
ThroughLoop == SubSeq(File, 1, hist.trailer_at)

IsWalked(events, i) ==
    /\ grf.container_version = Some(1)
    /\ events[i].kind = "real"
    /\ events[i].size >= 8
    /\ BitAnd(events[i].info, \h02) = 0

\* the bytes of the file after the record's info byte and 7 header bytes
StreamOf(e) == SliceFrom(File, e.at + 8)

\* the output lengths of the chunks a byte string holds, one after another
RECURSIVE Lengths(_)
Lengths(stream) ==
    IF stream = <<>> THEN <<>>
    ELSE <<ChunkLength(Head(stream))>>
             \o Lengths(SliceFrom(stream, 1 + ChunkSkip(Head(stream))))

\* the sums of the first k lengths, k = 0, 1, ...
PartialSums(lengths) == { Sum(SubSeq(lengths, 1, k)) : k \in 0..Len(lengths) }

\* C18: a container-1 real sprite of declared length L >= 8 that is not
\* raw is accepted exactly when the lengths of its first chunks add up to
\* L - 8; when a chunk reaches beyond L - 8 the error is "Failed sprite
\* decoding."; a container-1 real sprite of length below 8 is an error; and
\* an error ends the parse at that record.
C18_ExactWalk ==
    \A i \in DOMAIN hist.events :
        LET e == hist.events[i]
            sums == PartialSums(Lengths(StreamOf(e)))
        IN  /\ IsWalked(hist.events, i) =>
                /\ e.err = "" <=> (e.size - 8) \in sums
                /\ (\E over \in sums : over > e.size - 8) /\ (e.size - 8) \notin sums
                       => e.err = "Failed sprite decoding."
            /\ (grf.container_version = Some(1) /\ e.kind = "real" /\ e.size < 8)
                   => e.err # ""
            /\ e.err # "" => pc = "raised" /\ i = Len(hist.events)

\* A sprite of two chunks, a back-reference and a literal run, declared
\* with their exact length, was accepted and the record after it read.
C18_Witness ==
    /\ pc = "returned"
    /\ Len(hist.events) = 3
    /\ IsWalked(hist.events, 2)
    /\ hist.events[2].size = 8 + 13 + 2
    /\ Lengths(Slice(StreamOf(hist.events[2]), 0, 5)) = <<13, 2>>
    /\ Did(hist.events, 3, {\h04})

\* as the claim has the length of a back-reference: 32 less the low 5 bits
LowBitsLength(c) ==
    IF c >= \h80 THEN 32 - (c % 32) ELSE IF c = 0 THEN \h80 ELSE c

\* What the first control byte c of a walked sprite does, its length given
\* by Length: a length beyond the declared one is the decoding error; the
\* declared length itself ends the walk behind the bytes c skips, one for a
\* back-reference and c (128 for 0) for a literal run, and the length of
\* the next record is read from there.
FirstChunk(Length(_)) ==
    RecordStep =>
        LET events == hist'.events
            e == events[Len(events)]
            c == Head(StreamOf(e))
        IN  (IsWalked(events, Len(events)) /\ e.size > 8 /\ StreamOf(e) # <<>>) =>
                /\ Length(c) > e.size - 8 => e.err = "Failed sprite decoding."
                /\ Length(c) = e.size - 8 =>
                       /\ e.err = ""
                       /\ hist'.err = "" =>
                              reader'.pos = e.at + 8 + 1
                                                + (IF c >= \h80 THEN 1
                                                   ELSE IF c = 0 THEN 128 ELSE c)
                                                + 2

\* C19 as stated: a control byte with its high bit set skips one input
\* byte and counts for 32 - (low 5 bits); one below 0x80 skips and counts
\* for its value, 0 standing for 128.
C19_ChunkLengths == [][FirstChunk(LowBitsLength)]_vars

\* the length of a back-reference is 32 less the upper 5 bits
HighBitsLength(c) ==
    IF c >= \h80 THEN 32 - (c \div 8) ELSE IF c = 0 THEN \h80 ELSE c

\* C19 amended: a control byte c with its high bit set skips one input
\* byte and counts for 32 - (c >> 3), a length of 1 to 16; one below 0x80
\* skips and counts for its value, 0 standing for 128.
C19_ChunkLengthsHigh == [][FirstChunk(HighBitsLength)]_vars

\* A sprite of the one control byte 0x9F declared with length 8 + 13 was
\* accepted; so was one of the control byte 0.
C19_Witness ==
    /\ pc = "returned"
    /\ Len(hist.events) = 3
    /\ IsWalked(hist.events, 2)
    /\ hist.events[2].size = 8 + 13
    /\ Head(StreamOf(hist.events[2])) = \h9F
    /\ hist.events[3].at = hist.events[2].at + 8 + 2 + 2

\* the record loop of a container-1 file ended at its zero length
Trailing == Ended /\ grf.container_version = Some(1) /\ hist.trailer_at > 0

\* the bytes of the file after the terminating zero length
TrailerLength == Len(File) - hist.trailer_at

\* C20: behind the terminating zero length of a container-1 file the first
\* 16-bit field must be there and the second need not: read returns when
\* 2, 3 or 4 bytes follow, raises the end-of-file error when 0 or 1
\* follow, and rejects 5 or more as junk.
C20_TrailerV1 ==
    Trailing =>
        /\ pc = "returned" <=> TrailerLength \in 2..4
        /\ TrailerLength < 2 => hist.err = EOF
        /\ TrailerLength > 4 => hist.err = "Junk at the end of file."

\* A file with the first trailer field alone was accepted.
C20_Witness ==
    /\ Trailing
    /\ pc = "returned"
    /\ TrailerLength = 2
    /\ File \in TrailerFiles

(***************************************************************************)
(* The end of the input.                                                   *)
(***************************************************************************)
\* The length of the container-2 trailer the bytes start with: blocks of a
\* nonzero 4-byte tag, a 32-bit length and that many bytes, then a zero
\* tag; -1 when the bytes do not start with one.
RECURSIVE BlocksEnd(_)
BlocksEnd(bytes) ==
    IF Len(bytes) < 4 THEN -1
    ELSE IF Slice(bytes, 0, 4) = <<0, 0, 0, 0>> THEN 4
    ELSE IF Len(bytes) < 8 THEN -1
    ELSE LET size == from_bytes_little(Slice(bytes, 4, 8))
         IN  IF Len(bytes) < 8 + size THEN -1
             ELSE LET rest == BlocksEnd(SliceFrom(bytes, 8 + size))
                  IN  IF rest = -1 THEN -1 ELSE 8 + size + rest

\* the record loop of a container-2 file ended at its zero length
Trailing2 == Ended /\ grf.container_version = Some(2) /\ hist.trailer_at > 0

\* C21: read returns only with the input fully consumed.  Behind the
\* terminating zero length of a container-2 file read returns exactly when
\* the rest of the file is a sequence of (4-byte tag, 32-bit length, that
\* many bytes) blocks and a zero tag; a byte after that zero tag is the
\* junk error, and so is a byte after the trailer of a container-1 file.
C21_FullyConsumed ==
    /\ pc = "returned" => reader.pos = Len(File)
    /\ Trailing2 =>
           LET n == BlocksEnd(SliceFrom(File, hist.trailer_at))
           IN  /\ pc = "returned" <=> n = TrailerLength
               /\ n # -1 /\ n < TrailerLength =>
                      hist.err = "Junk at the end of file."
               /\ n = -1 => hist.err = EOF
    /\ Trailing /\ TrailerLength > 4 => hist.err = "Junk at the end of file."

\* A container-2 file with two blocks before its zero tag was accepted.
C21_Witness ==
    /\ Trailing2
    /\ pc = "returned"
    /\ File \in BlockFiles
    /\ SliceFrom(File, hist.trailer_at) =
           Block(2, 2) \o Block(5, 5) \o <<0, 0, 0, 0>>

(***************************************************************************)
(* The tag 0x7E.                                                           *)
(***************************************************************************)
\* no string holds a translation under the tag 0x7E
NoKeyTag ==
    \A key \in DOMAIN grf.strings : \h7E \notin DOMAIN grf.strings[key].translations

\* the tag and the text of a record of an attach script
AttachTag(e) ==
    IF e.bytes[1] = \h04 THEN e.bytes[3]
    ELSE IF e.bytes[1] = \h0B THEN ErrorTag(e)
    ELSE e.bytes[12]

AttachRaw(e) ==
    IF e.bytes[1] = \h04 THEN UpToZero(SliceFrom(e.bytes, 5))
    ELSE IF e.bytes[1] = \h0B THEN ErrorText(e)
    ELSE UpToZero(SliceFrom(e.bytes, 12))

\* the string the records of an attach script write to
AttachKey(e) ==
    IF e.bytes[1] = \h04 THEN str_feature(\h00, \h05)
    ELSE IF e.bytes[1] = \h0B THEN str_error(1)
    ELSE STR_GRF_NAME

\* What a record of an attach script did to its string: under the tag
\* 0x7E an ASCII text became the name and the translations stayed, under
\* another tag the text became that tag's translation and the name
\* stayed; Unnamed says what a text that is not ASCII did under 0x7E.
AttachStep(Unnamed(_, _)) ==
    RecordStep /\ File \in AttachScripts /\ frame.sprite_index > 0 =>
        LET e == hist'.events[Len(hist'.events)]
            key == AttachKey(e)
            text == CHOOSE t \in AttachTexts : t.raw = AttachRaw(e)
            before == IF key \in DOMAIN grf.strings THEN grf.strings[key]
                      ELSE GRFString
        IN  /\ key \in DOMAIN grf'.strings
            /\ IF AttachTag(e) # \h7E
               THEN /\ hist'.err = ""
                    /\ grf'.strings[key] =
                           [before EXCEPT !.translations =
                               Put(@, AttachTag(e), AttachRaw(e))]
               ELSE IF text.ascii
               THEN /\ hist'.err = ""
                    /\ grf'.strings[key] = [before EXCEPT !.str_name = text.name]
               ELSE Unnamed(before, grf'.strings[key])

\* the attach returned; the string has a new name and its translations
NamedAnyway(before, after) ==
    /\ hist'.err = ""
    /\ after.str_name # before.str_name
    /\ after.translations = before.translations

\* the attach raised the decoding error and the string is what it was
NotNamed(before, after) ==
    /\ hist'.err = "UnicodeDecodeError"
    /\ pc' = "raised"
    /\ after = before

\* C22 as stated: no translations map ever holds the tag 0x7E; an attach
\* under 0x7E sets the string's name and leaves its translations, an attach
\* under another tag sets that translation and leaves the name.
C22_KeyTag == [][AttachStep(NamedAnyway)]_vars /\ []NoKeyTag

\* C22 amended: as stated for a text under 0x7E that is ASCII; a text with
\* a byte from 0x80 on raises the decoding error out of read and leaves
\* the string as it was.
C22_KeyTagAscii == [][AttachStep(NotNamed)]_vars /\ []NoKeyTag

\* An Action 0x14 script attached "LM" under tag 0x02 and then named the
\* string "K" under tag 0x7E.
C22_Witness ==
    /\ pc = "returned"
    /\ File \in AttachScripts
    /\ STR_GRF_NAME \in DOMAIN grf.strings
    /\ grf.strings[STR_GRF_NAME] =
           [str_name |-> "K", translations |-> (\h02 :> <<\h4C, \h4D>>)]
    /\ AttachTag(hist.events[3]) = \h7E

(***************************************************************************)
(* Action 0x01.                                                            *)
(***************************************************************************)
\* the legacy fallback applies to the record written from d
Fallback(d) == d.n = 0 /\ Len(EncodeSets(d)) - 3 >= 3

\* The set count and the entry count of d, None when a value is missing:
\* in the fallback the two extended bytes right after the set-count byte.
PairCounts(d) ==
    IF Fallback(d)
    THEN IF Len(d.exts) >= 2 THEN Some(<<d.exts[1], d.exts[2]>>) ELSE None
    ELSE IF Len(d.exts) >= 1 THEN Some(<<d.n, d.exts[1]>>) ELSE None

\* as PairCounts, the fallback discarding the extended byte right after
\* the set-count byte and taking the two after it
TripleCounts(d) ==
    IF Fallback(d)
    THEN IF Len(d.exts) >= 3 THEN Some(<<d.exts[2], d.exts[3]>>) ELSE None
    ELSE IF Len(d.exts) >= 1 THEN Some(<<d.n, d.exts[1]>>) ELSE None

\* what an Action 0x01 step returned, its counts given by Counts
SetStep(Counts(_)) ==
    RecordStep /\ File \in SetScripts =>
        LET events == hist'.events
            e == events[Len(events)]
        IN  IsAction(events, Len(events), {\h01}) =>
                \A d \in SetRecords :
                    e.bytes = EncodeSets(d) =>
                        IF Counts(d) = None THEN e.err = EOF
                        ELSE /\ e.err = ""
                             /\ e.after = Counts(d)[1][1] * Counts(d)[1][2]

\* C24 as stated: Action 0x01 returns set count x entry count, the set
\* count the byte after the discarded byte and the entry count the
\* extended byte after it; in the legacy fallback the two counts are the
\* two extended bytes read right after the zero set-count byte.
C24_SetCounts == [][SetStep(PairCounts)]_vars

\* C24 amended: in the legacy fallback three extended bytes are read after
\* the zero set-count byte: the first is discarded, the second is the set
\* count and the third the entry count.
C24_SetCountsSkipFirst == [][SetStep(TripleCounts)]_vars

\* The record 01 00 00 03 02 FF 00 01 returned 2 x 256 sprites.
C24_Witness ==
    /\ pc = "returned"
    /\ File \in SetScripts
    /\ Len(hist.events) = 2
    /\ hist.events[2].bytes = EncodeSets([n |-> 0, exts |-> <<3, 2, \h100>>])
    /\ hist.events[2].after = 512

(***************************************************************************)
(* The sprite index.                                                       *)
(***************************************************************************)
\* C25: the sprite index is 0 at the first record and one more at every
\* record after it, dispatched, skipped, read or real; the record at index
\* 0 is consumed without being handed to read_pseudo and leaves the
\* metadata and the skip budget as they were.
C25_SpriteIndex ==
    [][RecordStep =>
        LET i == Len(hist'.events)
            e == hist'.events[i]
        IN  /\ frame.sprite_index = i - 1
            /\ e.sprite_index = i - 1
            /\ e.err = "" => frame'.sprite_index = i
            /\ i = 1 =>
                   /\ e.kind # "dispatched"
                   /\ Metadata(grf') = Metadata(grf)
                   /\ frame.skip_sprites = 0
                   /\ frame'.skip_sprites = 0
                   /\ hist'.err = "" => reader'.pos >= e.at + 1 + e.size]_vars

\* The first record was an Action 0x08 payload: it was read and not
\* dispatched, and the record after it was dispatched as sprite 1.
C25_Witness ==
    /\ pc = "returned"
    /\ File \in FirstFiles
    /\ Len(hist.events) = 2
    /\ hist.events[1].bytes = A08
    /\ hist.events[1].kind = "read"
    /\ Did(hist.events, 2, {\h04})
    /\ hist.events[2].sprite_index = 1
    /\ DOMAIN grf.strings = {"STR_TRAIN_5"}
    /\ grf.grf_version = NewGRF.grf_version

(***************************************************************************)
(* The framing of pseudo sprites.                                          *)
(***************************************************************************)
\* the width of a length field of the container
LengthWidth == IF grf.container_version = Some(2) THEN 4 ELSE 2

\* C27: a record of info byte 0xFF and length L that the file holds in
\* whole moves the container cursor over its 1 + L bytes (and over the
\* next length field, when read_pseudo did not raise), whether it was
\* dispatched, skipped or read without being dispatched and whatever
\* read_pseudo took from the payload; a record the file does not hold in
\* whole ends the read with an error.  The hash has received exactly the
\* bytes the cursor has passed.
C27_Framing ==
    [][RecordStep =>
        LET e == hist'.events[Len(hist'.events)]
            end == e.at + 1 + e.size
        IN  /\ reader.hashed = SubSeq(File, 1, reader.pos)
            /\ reader'.hashed = SubSeq(File, 1, reader'.pos)
            /\ e.info = \hFF =>
                   /\ e.kind \in {"dispatched", "skipped", "read"}
                   /\ Len(File) < end => hist'.err # ""
                   /\ Len(File) >= end =>
                          reader'.pos =
                              IF e.err # "" THEN end
                              ELSE Min(Len(File), end + LengthWidth)
                   /\ hist'.err = "" => reader'.pos = end + LengthWidth]_vars

\* An Action 0x01 record whose last four payload bytes read_pseudo left
\* unread was followed by the terminating length right behind it.
C27_Witness ==
    /\ pc = "returned"
    /\ File \in SetScripts
    /\ Len(hist.events) = 2
    /\ hist.events[2].bytes = EncodeSets([n |-> 2, exts |-> <<3, 2, \h100>>])
    /\ hist.events[2].after = 6
    /\ hist.trailer_at = hist.events[2].at + 1 + 8 + 2

(***************************************************************************)
(* The loops of read a turn at a time: the run-length walk of a            *)
(* container-1 real sprite, the block loop of the container-2 trailer and  *)
(* the node loop of read_a14 with its nested calls.  loop holds the input, *)
(* the reader, the locals of the loop and where it stands.                 *)
(***************************************************************************)
\* a turn that takes nothing at the end of the input and goes on
sprite_turn_eof(r, size) ==
    IF r.pos >= Len(r.file) THEN [reader |-> r, size |-> size, err |-> ""]
    ELSE
    Let(uint8(r), LAMBDA code :
    Let(IF code.val < \h80 THEN (IF code.val = 0 THEN \h80 ELSE code.val)
        ELSE 32 - Shr(code.val, 3), LAMBDA i :
    Let(IF code.val < \h80 THEN skip(code.reader, i) ELSE skip(code.reader, 1),
        LAMBDA skipped :
    IF i > size
    THEN [reader |-> skipped, size |-> size, err |-> "Failed sprite decoding."]
    ELSE [reader |-> skipped, size |-> size - i, err |-> ""])))

\* one turn of "while size > 0"
sprite_turn(r, size) ==
    Let(uint8(r), LAMBDA code :
    IF code.err # "" THEN [reader |-> code.reader, size |-> size, err |-> code.err]
    ELSE
    Let(IF code.val < \h80 THEN (IF code.val = 0 THEN \h80 ELSE code.val)
        ELSE 32 - Shr(code.val, 3), LAMBDA i :
    Let(IF code.val < \h80 THEN skip(code.reader, i) ELSE skip(code.reader, 1),
        LAMBDA skipped :
    IF i > size
    THEN [reader |-> skipped, size |-> size, err |-> "Failed sprite decoding."]
    ELSE [reader |-> skipped, size |-> size - i, err |-> ""])))

\* one turn of "while id != 0"
blocks_turn(r) ==
    Let(uint32(r, FALSE), LAMBDA size :
    IF size.err # "" THEN [reader |-> size.reader, id |-> 0, err |-> size.err]
    ELSE
    Let(uint32(skip(size.reader, size.val), FALSE), LAMBDA id :
    [reader |-> id.reader, id |-> id.val, err |-> id.err]))

\* what a turn of read_a14 hands back: the levels still open, and the
\* returned bool once none is
Turned(self, r, paths, val, err) ==
    [self |-> self, reader |-> r, paths |-> paths, val |-> val, err |-> err]

\* One turn of "while True" of the innermost call of read_a14: paths holds
\* the path of every call that has not returned, the innermost last.
a14_turn(self, r, paths) ==
    Let(paths[Len(paths)], LAMBDA path :
    Let(uint8(r), LAMBDA type_id :
    IF type_id.err # "" THEN Turned(self, type_id.reader, paths, FALSE, type_id.err)
    ELSE IF type_id.val = 0
    THEN Turned(self, type_id.reader, SubSeq(paths, 1, Len(paths) - 1), TRUE, "")
    ELSE
    Let(read(type_id.reader, 4), LAMBDA name :
    Let(path \o name.val, LAMBDA subpath :
    IF type_id.val = \h43
    THEN Turned(self, name.reader, Append(paths, subpath), TRUE, "")
    ELSE IF type_id.val = \h42
    THEN Let(uint16(name.reader, FALSE), LAMBDA size :
         IF size.err # "" THEN Turned(self, size.reader, paths, FALSE, size.err)
         ELSE
         Let(read(size.reader, size.val), LAMBDA data :
         Let(read_a14_binary(self, subpath, size.val, data.val),
             LAMBDA binary :
         Turned(binary.self, data.reader, paths, TRUE, binary.err))))
    ELSE IF type_id.val = \h54
    THEN Let(uint8(name.reader), LAMBDA grflangid :
         IF grflangid.err # ""
         THEN Turned(self, grflangid.reader, paths, FALSE, grflangid.err)
         ELSE
         Let(str(grflangid.reader), LAMBDA sdata :
         Let(read_a14_text(self, subpath, grflangid.val, sdata.val),
             LAMBDA text :
         Turned(text.self, sdata.reader, paths, TRUE, text.err))))
    ELSE Turned(self, name.reader, <<>>, FALSE, "")))))

\* The streams the walk is run on: at most MaxChunks chunks, whole or
\* with the last byte missing, under a size that is the chunks' length or
\* one off either way.
WalkCalls ==
    UNION { { [NoLoop EXCEPT !.name = "walk", !.input = stream,
                             !.size0 = size,
                             !.r = BinaryReader(stream, TRUE),
                             !.size = size, !.pc = "loop"] :
                stream \in {Flatten([k \in DOMAIN controls |-> Chunk(controls[k])]),
                            Slice(Flatten([k \in DOMAIN controls |-> Chunk(controls[k])]),
                                  0, Len(Flatten([k \in DOMAIN controls |->
                                                     Chunk(controls[k])])) - 1)},
                size \in {n \in {Sum([k \in DOMAIN controls |->
                                         ChunkLength(controls[k])]) + off :
                                   off \in {-1, 0, 1}} : n >= 0} } :
            controls \in UNION { [1..k -> Controls] : k \in 0..MaxChunks } }

\* The trailers the block loop is run on, "id = reader.uint32()" done.
BlockCalls ==
    { Let(uint32(BinaryReader(run \o end, FALSE), FALSE), LAMBDA id :
          [NoLoop EXCEPT !.name = "blocks", !.input = run \o end,
                         !.r = id.reader, !.id = id.val, !.err = id.err,
                         !.pc = IF id.err # "" THEN "raised" ELSE "loop"]) :
        run \in Runs(Blocks, MaxBlocks),
        end \in {<<>>, <<0, 0, 0, 0>>, <<0, 0, 0, 0, 9>>, <<0, 0, 0>>} }

\* The payloads read_a14 is run on: the trees of the tree scripts and of
\* the mapping scripts, whole or with the last one or two bytes missing.
TreeCalls ==
    { [NoLoop EXCEPT !.name = "a14", !.input = Slice(tree, 0, Len(tree) - cut),
                     !.r = BinaryReader(Slice(tree, 0, Len(tree) - cut), FALSE),
                     !.self = NewGRF, !.paths = <<<<>>>>, !.pc = "loop"] :
        tree \in { Tail(BadTree(d)) : d \in BadTrees }
                     \cup { Tail(MappingTree(m)) : m \in Mappings },
        cut \in 0..2 }

InitLoops ==
    /\ IdleReader
    /\ IdleDecode
    /\ IdleRead
    /\ IdleProcess
    /\ loop \in WalkCalls \cup BlockCalls \cup TreeCalls

\* the loop's condition holds: another turn
Turning ==
    /\ loop.pc = "loop"
    /\ loop.name = "walk" => loop.size > 0
    /\ loop.name = "blocks" => loop.id # 0

SpriteTurn ==
    /\ Turning /\ loop.name = "walk"
    /\ \E t \in {sprite_turn(loop.r, loop.size)} :
           loop' = [loop EXCEPT !.r = t.reader, !.size = t.size, !.err = t.err,
                                !.pc = IF t.err # "" THEN "raised" ELSE "loop"]
    /\ UNCHANGED <<readerVars, decodeVars, readVars, processVars>>

BlocksTurn ==
    /\ Turning /\ loop.name = "blocks"
    /\ \E t \in {blocks_turn(loop.r)} :
           loop' = [loop EXCEPT !.r = t.reader, !.id = t.id, !.err = t.err,
                                !.pc = IF t.err # "" THEN "raised" ELSE "loop"]
    /\ UNCHANGED <<readerVars, decodeVars, readVars, processVars>>

A14Turn ==
    /\ Turning /\ loop.name = "a14"
    /\ \E t \in {a14_turn(loop.self, loop.r, loop.paths)} :
           loop' = [loop EXCEPT !.r = t.reader, !.self = t.self,
                                !.paths = t.paths, !.val = t.val, !.err = t.err,
                                !.pc = IF t.err # "" THEN "raised"
                                       ELSE IF t.paths = <<>> THEN "returned"
                                       ELSE "loop"]
    /\ UNCHANGED <<readerVars, decodeVars, readVars, processVars>>

\* the condition of a while loop is false
LoopEnd ==
    /\ loop.pc = "loop"
    /\ ~Turning
    /\ loop' = [loop EXCEPT !.pc = "returned"]
    /\ UNCHANGED <<readerVars, decodeVars, readVars, processVars>>

NextLoops == SpriteTurn \/ BlocksTurn \/ A14Turn \/ LoopEnd

(***************************************************************************)
(* Every loop of the parser under one specification: a run is one call of  *)
(* read, one call of decodestr or one loop on its own.  ParseStep is a     *)
(* step of the running call; Truncate is the caller starting read again on *)
(* a shorter file.  The program is one sequential thread that takes its    *)
(* next step whenever it has one: weak fairness of ParseStep.  A running   *)
(* call always has a step (each statement goes on or raises) and a call    *)
(* that ended has none, so ENABLED <<ParseStep>>_vars is ~Finished and     *)
(* WF_vars(ParseStep) is written with it.  Nothing obliges the caller to   *)
(* call again.                                                             *)
(***************************************************************************)
InitTerminate == InitRead \/ InitDecode \/ InitLoops

ParseStep ==
    ReadHeader \/ ReadRecord \/ ReadTrailer \/ NextDecode \/ NextLoops

NextTerminate == ParseStep \/ Truncate

\* nothing is running
Finished ==
    /\ pc \in {"idle", "returned", "raised"}
    /\ dpc \in {"idle", "returned", "raised"}
    /\ loop.pc \in {"idle", "returned", "raised"}

SpecTerminate ==
    /\ InitTerminate
    /\ [][NextTerminate]_vars
    /\ WF_vars(LoopEnd)
    /\ []<>Finished \/ []<><<ParseStep>>_vars

\* a loop run a turn at a time ended as the loop of read does
SameAsLoop ==
    loop.pc \in {"returned", "raised"} =>
        CASE loop.name = "walk" ->
                 [reader |-> loop.r, err |-> loop.err]
                     = sprite_loop(BinaryReader(loop.input, TRUE), loop.size0)
          [] loop.name = "blocks" ->
                 [reader |-> loop.r, err |-> loop.err]
                     = blocks_loop(BinaryReader(loop.input, FALSE))
          [] OTHER ->
                 LET whole == read_a14(NewGRF, BinaryReader(loop.input, FALSE), <<>>)
                 IN  /\ whole.reader = loop.r
                     /\ whole.err = loop.err
                     /\ whole.err = "" =>
                            whole.val = loop.val /\ whole.self = loop.self

\* the turn a loop is about to take goes past at least one byte of the
\* input or raises
Consumes ==
    /\ pc = "records" =>
           \E rec \in {read_record(grf, frame, reader)} :
               rec.err # "" \/ rec.reader.pos > reader.pos
    /\ dpc = "loop" /\ pos < Len(b) =>
           \E it \in {decode_iter(b, pos, is_unicode, result, stack)} :
               it.err # "" \/ it.pos > pos
    /\ Turning /\ loop.name = "walk" =>
           \E t \in {sprite_turn(loop.r, loop.size)} :
               t.err # "" \/ t.reader.pos > loop.r.pos
    /\ Turning /\ loop.name = "blocks" =>
           \E t \in {blocks_turn(loop.r)} :
               t.err # "" \/ t.reader.pos > loop.r.pos
    /\ Turning /\ loop.name = "a14" =>
           \E t \in {a14_turn(loop.self, loop.r, loop.paths)} :
               t.err # "" \/ t.reader.pos > loop.r.pos

\* C29: the turn that the record loop, the run-length walk, the trailer's
\* block loop, a level of read_a14 or the decodestr loop is about to take
\* goes past at least one byte of the input or raises; a loop taken a turn
\* at a time ends as it does inside read; and every call of read and of
\* decodestr comes to an end: it has returned or raised, and stays so.
C29_Terminates == []Consumes /\ []SameAsLoop /\ <>[]Finished

\* A walk of two chunks, a literal run of one byte and a back-reference
\* of 13, has ended after two turns.
C29_Witness ==
    /\ loop.name = "walk"
    /\ loop.pc = "returned"
    /\ loop.input = Chunk(\h01) \o Chunk(\h9F)
    /\ loop.size0 = 14
    /\ loop.r.pos = 4

====
